---- MODULE Spec2Model ----
(***************************************************************************)
(* Baseline Lens CLI: the analysis and classification pipeline.            *)
(*                                                                         *)
(* Text is modelled at character level: a string of the program is a       *)
(* sequence of one-character strings, so that the regular expressions of   *)
(* the detectors, String.split, toLowerCase and parseInt are computed the  *)
(* way the program computes them.                                          *)
(***************************************************************************)
EXTENDS Integers, Sequences, FiniteSets, TLC

VARIABLES
    pc,             \* position of the run: which step comes next
    config,         \* the CLIConfig the analyzer was constructed with
    candidates,     \* what glob.sync returns for the project (unique paths)
    files,          \* findSupportedFiles' filteredFiles
    idx,            \* loop variable i of analyzeProject
    allFeatures,    \* analyzeProject's allFeatures
    errors,         \* analyzeProject's errors
    analyzedFiles,  \* analyzeProject's analyzedFiles
    pending,        \* the promise of the analyzeFile call in flight
    timer,          \* the setTimeout of analyzeWithTimeout
    clock,          \* wall clock, in model milliseconds
    bcdCache,       \* CompatibilityDataService.bcdCache
    result,         \* the CLIAnalysisResult analyzeProject returned
    failOn,         \* the failOn argument given to shouldFailBuild
    shouldFail,     \* what shouldFailBuild returned
    bcdData,        \* the __compat record handed to convertBCDToBaselineStatus
    baselineStatus, \* what convertBCDToBaselineStatus returned
    request,        \* the arguments of a call of one of the map...ToBCD methods
    resolvedKey,    \* the key that call returned
    run,            \* which call of analyzeProject this is, and the cache it began with
    firstResult,    \* the result of the first analyzeProject call
    argv,           \* what the user gave on the command line of `analyze`
    configFile,     \* the configuration file the command finds
    report,         \* the CompatibilityReport generateReport returned
    exitCode,       \* the exit code of the process, once it has ended
    serviceData,    \* CompatibilityDataService's loaded compatibility data
    progress,       \* analyzeProject's progressCallback and the calls made of it
    failureMessage, \* what getFailureMessage returned to the analyze command
    serviceCall,    \* the last lookup made of the service, and what it returned
    hooks,          \* the files of .git/hooks, by hook type
    hookCalls       \* the last calls of installHook and removeHooks

\* the state of the analysis pipeline and of the calls made on its result
analysisVars == <<pc, config, candidates, files, idx, allFeatures, errors,
                  analyzedFiles, pending, timer, clock, bcdCache, result,
                  failOn, shouldFail, bcdData, baselineStatus>>

\* the state of a call of the feature resolver
resolverVars == <<request, resolvedKey>>

\* the state of a second analyzeProject call
rerunVars == <<run, firstResult>>

\* the state of the analyze command around the pipeline
commandVars == <<argv, configFile, report, exitCode>>

\* the state of the git hooks generator
hookVars == <<hooks, hookCalls>>

vars == <<analysisVars, resolverVars, rerunVars, commandVars, serviceData,
          progress, failureMessage, serviceCall, hookVars>>

(***************************************************************************)
(* Bounds of the model                                                     *)
(***************************************************************************)
\* number of paths the glob expansion returns
MaxFiles == 2
\* config.maxFileSize, in bytes, scaled down
MaxFileSize == 16
\* config.analysisTimeout, in model milliseconds
AnalysisTimeout == 3
\* number of features in a result handed to shouldFailBuild on its own
MaxFeatures == 3

(***************************************************************************)
(* Values shared by the whole model                                        *)
(***************************************************************************)
\* JavaScript null / undefined / a promise or record that is not there
Null == [t |-> "null"]
Undefined == [t |-> "undefined"]

\* a JavaScript string value and a boolean value where both may occur
Str(s) == [t |-> "string", s |-> s]
Bool(b) == [t |-> "boolean", b |-> b]

(***************************************************************************)
(* Characters and strings                                                  *)
(***************************************************************************)
LowerSeq == <<"a","b","c","d","e","f","g","h","i","j","k","l","m",
              "n","o","p","q","r","s","t","u","v","w","x","y","z">>
UpperSeq == <<"A","B","C","D","E","F","G","H","I","J","K","L","M",
              "N","O","P","Q","R","S","T","U","V","W","X","Y","Z">>
DigitSeq == <<"0","1","2","3","4","5","6","7","8","9">>

Range(s) == {s[k] : k \in DOMAIN s}

\* a string literal of the program as the sequence of its characters
Chars(str) == [k \in 1..Len(str) |-> SubSeq(str, k, k)]
LowerChars == Range(LowerSeq)
UpperChars == Range(UpperSeq)
DigitChars == Range(DigitSeq)
SpaceChars == {" ", "\n", "\t"}

\* String.prototype.toLowerCase, one character
ToLowerChar(c) ==
    IF c \in UpperChars
    THEN LowerSeq[CHOOSE k \in DOMAIN UpperSeq : UpperSeq[k] = c]
    ELSE c

\* String.prototype.toLowerCase
toLowerCase(s) == [k \in DOMAIN s |-> ToLowerChar(s[k])]

\* String.prototype.split(sep) for a one-character separator
RECURSIVE SplitFrom(_, _, _, _)
SplitFrom(s, sep, k, cur) ==
    IF k > Len(s) THEN <<cur>>
    ELSE IF s[k] = sep THEN <<cur>> \o SplitFrom(s, sep, k + 1, <<>>)
    ELSE SplitFrom(s, sep, k + 1, Append(cur, s[k]))

split(s, sep) == SplitFrom(s, sep, 1, <<>>)

\* the decimal digits of a natural number
RECURSIVE Decimal(_)
Decimal(n) ==
    IF n < 10 THEN <<DigitSeq[n + 1]>>
    ELSE Decimal(n \div 10) \o <<DigitSeq[(n % 10) + 1]>>

DigitValue(c) == (CHOOSE k \in DOMAIN DigitSeq : DigitSeq[k] = c) - 1

\* parseInt(x): the leading decimal digits of String(x), NaN when there are none
NaN == [nan |-> TRUE]
Num(n) == [nan |-> FALSE, n |-> n]

RECURSIVE LeadingDigits(_, _, _)
LeadingDigits(s, k, acc) ==
    IF k > Len(s) \/ s[k] \notin DigitChars THEN acc
    ELSE LeadingDigits(s, k + 1, acc * 10 + DigitValue(s[k]))

parseInt(x) ==
    IF x.t = "string" /\ Len(x.s) > 0 /\ x.s[1] \in DigitChars
    THEN Num(LeadingDigits(x.s, 1, 0))
    ELSE NaN

\* JavaScript truthiness of a version_added value
Truthy(x) ==
    CASE x.t = "string" -> x.s # <<>>
      [] x.t = "boolean" -> x.b
      [] OTHER -> FALSE

\* number >= threshold, false for NaN
AtLeast(v, threshold) == ~v.nan /\ v.n >= threshold

(***************************************************************************)
(* CompatibilityDataService.convertBCDToBaselineStatus                     *)
(***************************************************************************)
majorBrowsers == <<"chrome", "firefox", "safari", "edge">>

\* recency thresholds of the classifier
ChromeRecent == 88
FirefoxRecent == 85
SafariRecent == 14
EdgeRecent == 88

\* one support statement of the compatibility data
Statement(added, removed) == [version_added |-> added, version_removed |-> removed]

\* support[browser]: not there, one statement, or an array of statements
Absent == [k |-> "absent"]
One(stmt) == [k |-> "object", stmt |-> stmt]
Many(stmts) == [k |-> "array", stmts |-> stmts]

\* Array.isArray(support[browser]) ? support[browser][0] : support[browser]
browserSupportOf(entry) == IF entry.k = "array" THEN entry.stmts[1] ELSE entry.stmt

\* the if/else-if chain of the loop body: does this browser count as recent
IsRecentVersion(browser, version) ==
    IF browser = "chrome" /\ AtLeast(version, ChromeRecent) THEN TRUE
    ELSE IF browser = "firefox" /\ AtLeast(version, FirefoxRecent) THEN TRUE
    ELSE IF browser = "safari" /\ AtLeast(version, SafariRecent) THEN TRUE
    ELSE IF browser = "edge" /\ AtLeast(version, EdgeRecent) THEN TRUE
    ELSE FALSE

\* the browsers the loop puts into supportData
SupportedBrowsers(support) ==
    {b \in Range(majorBrowsers) :
        /\ support[b].k # "absent"
        /\ Truthy(browserSupportOf(support[b]).version_added)}

\* supportData after the loop
supportDataOf(support) ==
    [b \in SupportedBrowsers(support) |->
        [version_added |-> browserSupportOf(support[b]).version_added]]

\* recentVersionCount after the loop
recentVersionCountOf(support) ==
    Cardinality({b \in SupportedBrowsers(support) :
        IsRecentVersion(b, parseInt(browserSupportOf(support[b]).version_added))})

\* the status rule on the two counts
StatusRuleOffByOne(totalSupported, recentVersionCount) ==
    IF totalSupported >= 4 /\ recentVersionCount = 0 THEN "widely_available"
    ELSE IF totalSupported >= 3 /\ recentVersionCount < 2 THEN "newly_available"
    ELSE "limited_availability"

StatusRule(totalSupported, recentVersionCount) ==
    IF totalSupported >= 4 /\ recentVersionCount = 0 THEN "widely_available"
    ELSE IF totalSupported >= 3 /\ recentVersionCount <= 2 THEN "newly_available"
    ELSE "limited_availability"

convertBCDToBaselineStatus(data) ==
    IF data = Null \/ data.support = Null
    THEN [status |-> "limited_availability", support |-> <<>>]
    ELSE [status |-> StatusRule(Cardinality(DOMAIN supportDataOf(data.support)),
                                recentVersionCountOf(data.support)),
          support |-> supportDataOf(data.support)]

(***************************************************************************)
(* The compatibility knowledge base (@mdn/browser-compat-data), a snapshot *)
(***************************************************************************)
V(n) == Str(Decimal(n))
Supported(n) == One(Statement(V(n), Undefined))
Unsupported == One(Statement(Bool(FALSE), Undefined))

Support(chrome, firefox, safari, edge) ==
    [chrome |-> chrome, firefox |-> firefox, safari |-> safari, edge |-> edge]

\* a node of the hierarchy: its own __compat (or none) and its named children
Node(compat, children) == [compat |-> compat, children |-> children]
Leaf(support) == Node([support |-> support], <<>>)

\* support statements of features old in every browser, recent in two of
\* them, and missing in two of them
Old == Support(Supported(1), Supported(1), Supported(1), Supported(12))
Recent == Support(Supported(111), Supported(113), Supported(10), Supported(79))
Partial == Support(Supported(1), Unsupported, Supported(4), Unsupported)

\* the compatibility data initialize() loads into the service (serviceData)
bcd ==
    Node(Null,
         (Chars("css") :> Node(Null,
             (Chars("properties") :> Node(Null,
                 (Chars("gap") :> Leaf(Support(Supported(57), Supported(52),
                                        One(Statement(Str(Chars("10.1")), Undefined)),
                                        Supported(16))))
              @@ (Chars("inset") :> Leaf(Support(Supported(87), Supported(66),
                                          One(Statement(Str(Chars("14.1")), Undefined)),
                                          Supported(87))))
              @@ (Chars("zoom") :> Leaf(Support(Supported(1), Unsupported,
                                         Supported(4), Unsupported)))
              @@ (Chars("color") :> Leaf(Old))
              @@ (Chars("display") :> Node([support |-> Old],
                                     (Chars("grid") :> Leaf(Recent))
                                  @@ (Chars("inline_grid") :> Leaf(Partial))))))))
      @@ (Chars("api") :> Node(Null,
             (Chars("fetch") :> Leaf(Support(Supported(42), Supported(39),
                                      One(Statement(Str(Chars("10.1")), Undefined)),
                                      Supported(14))))
          @@ (Chars("Window") :> Node([support |-> Old],
                               (Chars("fetch") :> Leaf(Partial))
                            @@ (Chars("alert") :> Leaf(Old))))
          @@ (Chars("Request") :> Node([support |-> Recent],
                                (Chars("Request") :> Leaf(Partial))))))
      @@ (Chars("javascript") :> Node(Null,
             (Chars("builtins") :> Node(Null,
                 (Chars("Promise") :> Leaf(Support(Supported(32), Supported(29),
                                            Supported(8), Supported(12))))))))
      @@ (Chars("html") :> Node(Null,
             (Chars("elements") :> Node(Null,
                 (Chars("dialog") :> Node([support |-> Support(Supported(37), Supported(98),
                                        One(Statement(Str(Chars("15.4")), Undefined)),
                                        Supported(79))],
                                   (Chars("open") :> Leaf(Recent))
                                @@ (Chars("hidden") :> Leaf(Partial))))
              @@ (Chars("search") :> Leaf(Support(Supported(118), Supported(118),
                                           Supported(17), Supported(118))))
              @@ (<<"p">> :> Leaf(Old))
              @@ (Chars("form") :> Node([support |-> Old],
                                  (Chars("accept_charset") :> Leaf(Old))))))
          @@ (Chars("global_attributes") :> Node(Null,
                 (Chars("hidden") :> Leaf(Old)))))))

(***************************************************************************)
(* CompatibilityDataService                                                *)
(***************************************************************************)
\* the for-loop of getBCDData: descend one part at a time, null on a miss
RECURSIVE Descend(_, _)
Descend(current, parts) ==
    IF parts = <<>> THEN current
    ELSE IF current # Null /\ Head(parts) \in DOMAIN current.children
         THEN Descend(current.children[Head(parts)], Tail(parts))
         ELSE Null

getBCDData(bcdKey) ==
    LET current == Descend(serviceData, split(bcdKey, "."))
    IN  IF current # Null /\ current.compat # Null THEN current.compat ELSE Null

getBCDStatusStaleHit(cache, bcdKey) ==
    IF bcdKey \in DOMAIN cache
    THEN [value |-> [status |-> "limited_availability", support |-> <<>>],
          cache |-> cache]
    ELSE LET data == getBCDData(bcdKey)
         IN  IF data # Null
             THEN LET status == convertBCDToBaselineStatus(data)
                  IN  [value |-> status, cache |-> (bcdKey :> status) @@ cache]
             ELSE [value |-> Null, cache |-> cache]

getBCDStatusForgetOthers(cache, bcdKey) ==
    IF bcdKey \in DOMAIN cache
    THEN [value |-> cache[bcdKey], cache |-> cache]
    ELSE LET data == getBCDData(bcdKey)
         IN  IF data # Null
             THEN LET status == convertBCDToBaselineStatus(data)
                  IN  [value |-> status, cache |-> (bcdKey :> status)]
             ELSE [value |-> Null, cache |-> cache]

\* getBCDStatus: the value returned and the cache afterwards
getBCDStatus(cache, bcdKey) ==
    IF bcdKey \in DOMAIN cache
    THEN [value |-> cache[bcdKey], cache |-> cache]
    ELSE LET data == getBCDData(bcdKey)
         IN  IF data # Null
             THEN LET status == convertBCDToBaselineStatus(data)
                  IN  [value |-> status, cache |-> (bcdKey :> status) @@ cache]
             ELSE [value |-> Null, cache |-> cache]

\* a status record of web-features: baseline is 'high', 'low' or false
FeatureStatusData(baseline, lowDate, highDate, support) ==
    [baseline |-> baseline, baseline_low_date |-> lowDate,
     baseline_high_date |-> highDate, support |-> support]

\* the features the service takes from web-features (webFeaturesData), a
\* snapshot: feature ids and the status of each
webFeaturesData ==
    (Chars("grid") :> [status |->
        FeatureStatusData(Str(Chars("high")), Str(Chars("2017-10-17")),
                          Str(Chars("2020-04-17")),
                          [chrome |-> Chars("57"), firefox |-> Chars("52")])])
 @@ (Chars("dialog") :> [status |->
        FeatureStatusData(Str(Chars("low")), Str(Chars("2022-03-14")),
                          Undefined, [safari |-> Chars("15.4")])])
 @@ (Chars("zoom") :> [status |->
        FeatureStatusData(Bool(FALSE), Undefined, Undefined, Undefined)])

convertWebFeatureStatus(status) ==
    IF status = Undefined
    THEN [status |-> "limited_availability", support |-> <<>>]
    ELSE [status |-> IF status.baseline = Str(Chars("high"))
                     THEN "widely_available"
                     ELSE IF status.baseline = Str(Chars("low"))
                          THEN "newly_available"
                          ELSE "limited_availability",
          baseline_date |-> status.baseline_low_date,
          low_date |-> status.baseline_low_date,
          high_date |-> status.baseline_high_date,
          support |-> IF status.support # Undefined THEN status.support
                      ELSE <<>>]

\* getFeatureStatus on an initialized service: the value returned and the
\* cache afterwards
getFeatureStatus(cache, featureId) ==
    IF featureId \in DOMAIN cache
    THEN [value |-> cache[featureId], cache |-> cache]
    ELSE IF featureId \in DOMAIN webFeaturesData
            /\ webFeaturesData[featureId].status # Undefined
         THEN LET status ==
                      convertWebFeatureStatus(webFeaturesData[featureId].status)
              IN  [value |-> status, cache |-> (featureId :> status) @@ cache]
         ELSE [value |-> Null, cache |-> cache]

\* clearCache: bcdCache.clear()
clearCache(cache) == <<>>

Dot == <<".">>

\* String.prototype.replace(/-/g, '_')
replaceHyphens(s) == [k \in DOMAIN s |-> IF s[k] = "-" THEN "_" ELSE s[k]]

\* value is Undefined when the caller gives none, as the detectors do
mapCSSPropertyToBCD(property, value) ==
    LET baseKey == Chars("css") \o Dot \o Chars("properties") \o Dot \o property
        valueKey == baseKey \o Dot \o replaceHyphens(value.s)
    IN  IF Truthy(value) /\ getBCDData(valueKey) # Null THEN valueKey ELSE baseKey

RECURSIVE lastResolving(_, _)
lastResolving(possibleKeys, fallback) ==
    IF possibleKeys = <<>> THEN fallback
    ELSE IF getBCDData(possibleKeys[Len(possibleKeys)]) # Null
         THEN possibleKeys[Len(possibleKeys)]
    ELSE lastResolving(SubSeq(possibleKeys, 1, Len(possibleKeys) - 1), fallback)

\* the for loop over possibleKeys: the first key getBCDData finds
RECURSIVE firstResolving(_, _)
firstResolving(possibleKeys, fallback) ==
    IF possibleKeys = <<>> THEN fallback
    ELSE IF getBCDData(Head(possibleKeys)) # Null THEN Head(possibleKeys)
    ELSE firstResolving(Tail(possibleKeys), fallback)

mapJSAPIToBCD(apiName) ==
    LET possibleKeys == << Chars("api") \o Dot \o apiName,
                           Chars("javascript") \o Dot \o Chars("builtins") \o Dot \o apiName,
                           Chars("api") \o Dot \o Chars("Window") \o Dot \o apiName,
                           Chars("api") \o Dot \o apiName \o Dot \o apiName >>
    IN  firstResolving(possibleKeys, Chars("api") \o Dot \o apiName)

\* attribute is Undefined when the caller gives none, as the detector does
mapHTMLElementToBCD(element, attribute) ==
    LET baseKey == Chars("html") \o Dot \o Chars("elements") \o Dot \o element
        possibleKeys ==
            << baseKey \o Dot \o attribute.s,
               Chars("html") \o Dot \o Chars("global_attributes") \o Dot \o attribute.s,
               baseKey \o Dot \o replaceHyphens(attribute.s) >>
    IN  IF Truthy(attribute)
        THEN firstResolving(possibleKeys, baseKey \o Dot \o attribute.s)
        ELSE baseKey

(***************************************************************************)
(* The detectors (cliAnalyzers): regular-expression scans of the text      *)
(***************************************************************************)
WordChars == LowerChars \cup UpperChars \cup DigitChars \cup {"_"}
CssNameChars == LowerChars \cup {"-"}
HtmlNameChars == LowerChars \cup UpperChars \cup DigitChars \cup {"-"}

\* the first position >= k of s whose character is not in cls (Len(s)+1 if none)
RECURSIVE SkipWhile(_, _, _)
SkipWhile(s, k, cls) ==
    IF k <= Len(s) /\ s[k] \in cls THEN SkipWhile(s, k + 1, cls) ELSE k

\* A match is [index |-> 0-based match.index, group |-> match[1], next |-> the
\* 1-based position right after the match]; NoMatch when the attempt fails.
NoMatch == [index |-> -1]

\* /([a-z-]+)\s*:/ attempted at 1-based position k
CssMatchAt(s, k) ==
    LET nameEnd == SkipWhile(s, k, CssNameChars)
        colon == SkipWhile(s, nameEnd, SpaceChars)
    IN  IF nameEnd > k /\ colon <= Len(s) /\ s[colon] = ":"
        THEN [index |-> k - 1, group |-> SubSeq(s, k, nameEnd - 1), next |-> colon + 1]
        ELSE NoMatch

jsApiWords == << Chars("fetch"), Chars("Promise"),
                 Chars("async"), Chars("await"),
                 Chars("const"), Chars("let"),
                 Chars("Map"), Chars("Set"),
                 Chars("WeakMap"), Chars("WeakSet") >>

\* \b at 1-based position k: exactly one side is a word character
WordBoundary(s, k) ==
    (k > 1 /\ s[k - 1] \in WordChars) # (k <= Len(s) /\ s[k] \in WordChars)

\* /\b(fetch|Promise|...|WeakSet)\b/ attempted at 1-based position k
JsMatchAt(s, k) ==
    LET fits == {a \in DOMAIN jsApiWords :
                    /\ k + Len(jsApiWords[a]) - 1 <= Len(s)
                    /\ SubSeq(s, k, k + Len(jsApiWords[a]) - 1) = jsApiWords[a]
                    /\ WordBoundary(s, k + Len(jsApiWords[a]))}
    IN  IF WordBoundary(s, k) /\ fits # {}
        THEN LET a == CHOOSE x \in fits : \A y \in fits : x <= y
             IN  [index |-> k - 1, group |-> jsApiWords[a], next |-> k + Len(jsApiWords[a])]
        ELSE NoMatch

\* /<([a-z][a-z0-9-]*)/i attempted at 1-based position k
HtmlMatchAt(s, k) ==
    IF /\ k + 1 <= Len(s)
       /\ s[k] = "<"
       /\ s[k + 1] \in LowerChars \cup UpperChars
    THEN LET nameEnd == SkipWhile(s, k + 1, HtmlNameChars)
         IN  [index |-> k - 1, group |-> SubSeq(s, k + 1, nameEnd - 1), next |-> nameEnd]
    ELSE NoMatch

MatchAt(type, s, k) ==
    CASE type = "css" -> CssMatchAt(s, k)
      [] type = "javascript" -> JsMatchAt(s, k)
      [] type = "html" -> HtmlMatchAt(s, k)

\* regex.exec with the g flag: the leftmost match at or after lastIndex
RECURSIVE exec(_, _, _)
exec(type, s, lastIndex) ==
    IF lastIndex > Len(s) THEN NoMatch
    ELSE IF MatchAt(type, s, lastIndex) # NoMatch THEN MatchAt(type, s, lastIndex)
    ELSE exec(type, s, lastIndex + 1)

\* content.substring(0, index).split('\n').length - 1
lineOf(content, index) == Len(split(SubSeq(content, 1, index), "\n")) - 1

\* content.lastIndexOf('\n', index), 0-based, -1 when there is none
RECURSIVE lastIndexOf(_, _, _)
lastIndexOf(content, ch, from) ==
    IF from < 0 THEN -1
    ELSE IF from + 1 <= Len(content) /\ content[from + 1] = ch THEN from
    ELSE lastIndexOf(content, ch, from - 1)

characterOf(content, index) == index - lastIndexOf(content, "\n", index) - 1

cssSkipped == { Chars("color"),
                Chars("background"),
                Chars("margin"),
                Chars("padding"),
                Chars("width"),
                Chars("height") }

htmlSkipped == { Chars("div"), Chars("span"), <<"p">>, <<"a">>,
                 Chars("img"), Chars("h1"), Chars("h2"), Chars("h3"),
                 Chars("h4"), Chars("h5"), Chars("h6") }

\* the token of a match: match[1], lower-cased by the HTML detector
tokenOf(type, m) == IF type = "html" THEN toLowerCase(m.group) ELSE m.group

isSkippedNothing(type, token) == FALSE

isSkipped(type, token) ==
    CASE type = "css" -> token \in cssSkipped
      [] type = "javascript" -> FALSE
      [] type = "html" -> token \in htmlSkipped

mapToBCD(type, token) ==
    CASE type = "css" -> mapCSSPropertyToBCD(token, Undefined)
      [] type = "javascript" -> mapJSAPIToBCD(token)
      [] type = "html" -> mapHTMLElementToBCD(token, Undefined)

\* the feature a detector pushes for a match
featureOf(type, content, fileName, m, status) ==
    [name |-> tokenOf(type, m),
     type |-> type,
     line |-> lineOf(content, m.index),
     column |-> characterOf(content, m.index),
     baselineStatus |-> status,
     range |-> [start |-> [line |-> lineOf(content, m.index),
                           character |-> characterOf(content, m.index)],
                end |-> [line |-> lineOf(content, m.index),
                         character |-> characterOf(content, m.index)
                                          + Len(tokenOf(type, m))]],
     filePath |-> fileName]

RECURSIVE analyzeLoopUnshift(_, _, _, _, _, _)
analyzeLoopUnshift(type, content, fileName, lastIndex, features, cache) ==
    LET m == exec(type, content, lastIndex)
    IN  IF m = NoMatch THEN [features |-> features, cache |-> cache]
        ELSE IF isSkipped(type, tokenOf(type, m))
        THEN analyzeLoopUnshift(type, content, fileName, m.next, features, cache)
        ELSE LET got == getBCDStatus(cache, mapToBCD(type, tokenOf(type, m)))
             IN  IF got.value = Null
                 THEN analyzeLoopUnshift(type, content, fileName, m.next, features,
                                         got.cache)
                 ELSE analyzeLoopUnshift(type, content, fileName, m.next,
                                         <<featureOf(type, content, fileName, m, got.value)>>
                                            \o features,
                                         got.cache)

\* the while loop of analyze(): [features, cache] when the scan is over
RECURSIVE analyzeLoop(_, _, _, _, _, _)
analyzeLoop(type, content, fileName, lastIndex, features, cache) ==
    LET m == exec(type, content, lastIndex)
    IN  IF m = NoMatch THEN [features |-> features, cache |-> cache]
        ELSE IF isSkipped(type, tokenOf(type, m))
        THEN analyzeLoop(type, content, fileName, m.next, features, cache)
        ELSE LET got == getBCDStatus(cache, mapToBCD(type, tokenOf(type, m)))
             IN  IF got.value = Null
                 THEN analyzeLoop(type, content, fileName, m.next, features, got.cache)
                 ELSE analyzeLoop(type, content, fileName, m.next,
                                  Append(features,
                                         featureOf(type, content, fileName, m, got.value)),
                                  got.cache)

\* CLICSSAnalyzer / CLIJavaScriptAnalyzer / CLIHTMLAnalyzer .analyze
analyze(type, content, fileName, cache) ==
    analyzeLoop(type, content, fileName, 1, <<>>, cache)

(***************************************************************************)
(* The file system the run sees                                            *)
(***************************************************************************)
\* text followed by blanks up to n characters
RECURSIVE Pad(_, _)
Pad(text, n) == IF Len(text) >= n THEN text ELSE Pad(Append(text, " "), n)

\* What is on disk behind one path.  gone: statSync fails during discovery;
\* statErr / readErr: the code of the error statSync / readFileSync throws
\* when analyzeFile gets to the file ("none": no error); dur: the time one
\* scan of the content takes.
Profile(ext, content, gone, statErr, readErr, dur) ==
    [ext |-> ext, content |-> content, gone |-> gone,
     statErr |-> statErr, readErr |-> readErr, dur |-> dur]

Plain(ext, content) == Profile(ext, content, FALSE, "none", "none", 1)

Profiles ==
    { Plain(Chars(".css"), Chars("gap:1")),
      Plain(Chars(".css"), Chars("zz:1;color:red")),
      Plain(Chars(".css"), Chars("zoom:2\ninset:0")),
      Plain(Chars(".js"), Chars("let p=fetch(u)")),
      Plain(Chars(".html"), Chars("<dialog><P>")),
      Plain(Chars(".css"), <<>>),
      Plain(Chars(".css"), Pad(Chars("inset:0"), MaxFileSize)),
      Plain(Chars(".css"), Pad(Chars("inset:0"), MaxFileSize + 1)),
      Plain(Chars(".txt"), Chars("gap:1")),
      Plain(Chars(".CSS"), Chars("gap:1")),
      Profile(Chars(".css"), Chars("gap:1"), TRUE, "ENOENT", "none", 1),
      Profile(Chars(".js"), Chars("fetch(u)"), FALSE, "ENOENT", "none", 1),
      Profile(Chars(".css"), Chars("gap:1"), FALSE, "none", "EACCES", 1),
      Profile(Chars(".css"), Chars("inset:0"), FALSE, "none", "invalid character", 1),
      Profile(Chars(".js"), Chars("Promise(fetch)"),
              FALSE, "none", "none", AnalysisTimeout + 1) }

\* the k-th path of the glob expansion and what is behind it
FileOf(k, profile) ==
    [path |-> [id |-> k, ext |-> profile.ext],
     size |-> Len(profile.content),
     content |-> profile.content,
     gone |-> profile.gone,
     statErr |-> profile.statErr,
     readErr |-> profile.readErr,
     dur |-> profile.dur]

Configs ==
    { [maxFileSize |-> MaxFileSize,
       analysisTimeout |-> AnalysisTimeout,
       enabledAnalyzers |-> [css |-> TRUE, javascript |-> TRUE, html |-> h]]
      : h \in BOOLEAN }

(***************************************************************************)
(* CLIAnalyzer                                                             *)
(***************************************************************************)
\* findSupportedFiles: the paths whose stat succeeds with size <= maxFileSize
findSupportedFiles(globbed, cfg) ==
    LET Keep(f) == ~f.gone /\ f.size <= cfg.maxFileSize
    IN  SelectSeq(globbed, Keep)

\* the switch of analyzeWithTimeout: the detector of an extension
detectorOf(extension) ==
    CASE extension \in { Chars(".css"), Chars(".scss"), Chars(".sass"),
                         Chars(".less") } -> "css"
      [] extension \in { Chars(".js"), Chars(".jsx"), Chars(".ts"),
                         Chars(".tsx"), Chars(".mjs") } -> "javascript"
      [] extension \in { Chars(".html"), Chars(".htm"), Chars(".vue"),
                         Chars(".svelte") } -> "html"
      [] OTHER -> "none"

\* the message of the error the first try/catch of analyzeFile rethrows
fsErrorMessage(code, path) ==
    CASE code = "ENOENT" -> <<"File not found: ", path>>
      [] code = "EACCES" -> <<"Permission denied: ", path>>
      [] code = "invalid character" -> <<"Invalid file encoding (not UTF-8): ", path>>
      [] OTHER -> <<code, path>>

tooLargeMessage(size, max) == <<"File too large: ", size, " bytes (max: ", max, ")">>

timeoutMessage(path, ms) ==
    <<"Failed to analyze ", path, ": ", "Analysis timeout after ", ms, "ms">>

Rejected(message, cache) ==
    [state |-> "rejected", error |-> message, cache |-> cache]
Fulfilled(features, cache) ==
    [state |-> "fulfilled", value |-> features, cache |-> cache]
\* the detector has returned and the continuation of the await is queued
Awaiting(features, cache) ==
    [state |-> "awaiting", value |-> features, cache |-> cache]

executorIgnoreDisabled(f, cfg, cache) ==
    LET type == detectorOf(toLowerCase(f.path.ext))
    IN  IF type # "none"
        THEN LET got == analyze(type, f.content, f.path, cache)
             IN  Awaiting(got.features, got.cache)
        ELSE Fulfilled(<<>>, cache)

\* The body of the promise executor.  With a detector for the extension, it
\* runs the detector to its end and suspends at the await; without one (or
\* with the detector disabled) it clears the timer and resolves at once.
executor(f, cfg, cache) ==
    LET type == detectorOf(toLowerCase(f.path.ext))
    IN  IF type # "none" /\ cfg.enabledAnalyzers[type]
        THEN LET got == analyze(type, f.content, f.path, cache)
             IN  Awaiting(got.features, got.cache)
        ELSE Fulfilled(<<>>, cache)

analyzeFileSyncSwallow(f, cfg, cache) ==
    IF f.statErr # "none" THEN Rejected(fsErrorMessage(f.statErr, f.path), cache)
    ELSE IF f.size > cfg.maxFileSize
         THEN Rejected(tooLargeMessage(f.size, cfg.maxFileSize), cache)
    ELSE IF f.size = 0 THEN Fulfilled(<<>>, cache)
    ELSE IF f.readErr # "none" THEN Fulfilled(<<>>, cache)
    ELSE executor(f, cfg, cache)

analyzeFileSyncEmptyThrows(f, cfg, cache) ==
    IF f.statErr # "none" THEN Rejected(fsErrorMessage(f.statErr, f.path), cache)
    ELSE IF f.size > cfg.maxFileSize
         THEN Rejected(tooLargeMessage(f.size, cfg.maxFileSize), cache)
    ELSE IF f.size = 0 THEN Rejected(<<"File is empty: ", f.path>>, cache)
    ELSE IF f.readErr # "none" THEN Rejected(fsErrorMessage(f.readErr, f.path), cache)
    ELSE executor(f, cfg, cache)

\* analyzeFile up to its first suspension
analyzeFileSync(f, cfg, cache) ==
    IF f.statErr # "none" THEN Rejected(fsErrorMessage(f.statErr, f.path), cache)
    ELSE IF f.size > cfg.maxFileSize
         THEN Rejected(tooLargeMessage(f.size, cfg.maxFileSize), cache)
    ELSE IF f.size = 0 THEN Fulfilled(<<>>, cache)
    ELSE IF f.readErr # "none" THEN Rejected(fsErrorMessage(f.readErr, f.path), cache)
    ELSE executor(f, cfg, cache)

\* The event loop: queued promise continuations (microtasks) run before any
\* timer callback, and a timer callback runs only once it is due.
nextTask(p, t, now) ==
    IF p.state = "awaiting" THEN "microtask"
    ELSE IF t.armed /\ now >= t.deadline THEN "timer"
    ELSE "none"

\* the promise of analyzeFile once the event loop has run its next task
settle(p, t, now, f, cfg) ==
    CASE nextTask(p, t, now) = "microtask" ->
            \* clearTimeout; resolve(features); then the map that sets filePath
            Fulfilled([k \in DOMAIN p.value |->
                          [p.value[k] EXCEPT !.filePath = f.path]], p.cache)
      [] nextTask(p, t, now) = "timer" ->
            Rejected(timeoutMessage(f.path, cfg.analysisTimeout), p.cache)
      [] OTHER -> p

progressOfPerMille(i, n) == (2000 * i + n) \div (2 * n)

\* Math.round((i / files.length) * 100), for 0 <= i < files.length
progressOf(i, n) == (200 * i + n) \div (2 * n)

\* progressCallback?.(percent, message): a call, if a callback was given
notify(p, percent) ==
    IF p.given THEN [p EXCEPT !.calls = Append(@, percent)] ELSE p

CountStatus(features, status) ==
    Cardinality({k \in DOMAIN features : features[k].baselineStatus.status = status})

generateSummaryMissingCase(features) ==
    [widelyAvailable |-> CountStatus(features, "widely_available"),
     newlyAvailable |-> 0,
     limitedAvailability |-> CountStatus(features, "limited_availability")]

generateSummary(features) ==
    [widelyAvailable |-> CountStatus(features, "widely_available"),
     newlyAvailable |-> CountStatus(features, "newly_available"),
     limitedAvailability |-> CountStatus(features, "limited_availability")]

calculateRiskDistributionSwapped(features) ==
    [low |-> CountStatus(features, "widely_available"),
     medium |-> CountStatus(features, "limited_availability"),
     high |-> CountStatus(features, "newly_available")]

calculateRiskDistribution(features) ==
    [low |-> CountStatus(features, "widely_available"),
     medium |-> CountStatus(features, "newly_available"),
     high |-> CountStatus(features, "limited_availability")]

calculateFileTypeBreakdown(features) ==
    [t \in {features[k].type : k \in DOMAIN features} |->
        Cardinality({k \in DOMAIN features : features[k].type = t})]

\* the statistics and the object literal analyzeProject returns
assembleResult(totalFiles, analyzed, features, errs) ==
    [totalFiles |-> totalFiles,
     analyzedFiles |-> analyzed,
     features |-> features,
     errors |-> errs,
     summary |-> generateSummary(features),
     riskDistribution |-> calculateRiskDistribution(features),
     fileTypeBreakdown |-> calculateFileTypeBreakdown(features)]

shouldFailBuildCaseSensitive(res, level) ==
    CASE level = Chars("high") -> res.riskDistribution.high > 0
      [] level = Chars("medium") ->
            res.riskDistribution.medium > 0 \/ res.riskDistribution.high > 0
      [] level = Chars("low") -> Len(res.features) > 0
      [] OTHER -> FALSE

shouldFailBuildLowCount(res, level) ==
    CASE toLowerCase(level) = Chars("high") -> res.riskDistribution.high > 0
      [] toLowerCase(level) = Chars("medium") ->
            res.riskDistribution.medium > 0 \/ res.riskDistribution.high > 0
      [] toLowerCase(level) = Chars("low") -> res.riskDistribution.low > 0
      [] OTHER -> FALSE

shouldFailBuild(res, level) ==
    CASE toLowerCase(level) = Chars("high") -> res.riskDistribution.high > 0
      [] toLowerCase(level) = Chars("medium") ->
            res.riskDistribution.medium > 0 \/ res.riskDistribution.high > 0
      [] toLowerCase(level) = Chars("low") -> Len(res.features) > 0
      [] OTHER -> FALSE

\* getFailureMessage: the messages pushed, which join(', ') makes one string
\* (the empty string when none was pushed)
getFailureMessage(res, level) ==
    (IF level = Chars("high") /\ res.riskDistribution.high > 0
     THEN <<[count |-> res.riskDistribution.high, risk |-> "high"]>> ELSE <<>>)
    \o (IF level \in {Chars("medium"), Chars("high")} /\ res.riskDistribution.medium > 0
        THEN <<[count |-> res.riskDistribution.medium, risk |-> "medium"]>> ELSE <<>>)
    \o (IF level = Chars("low") /\ res.riskDistribution.low > 0
        THEN <<[count |-> res.riskDistribution.low, risk |-> "low"]>> ELSE <<>>)

\* getExitCode: the decision taken again, with the failOn of the configuration
getExitCode(res, cfg) == IF shouldFailBuild(res, cfg.failOn) THEN 1 ELSE 0

(***************************************************************************)
(* CLIReporter                                                             *)
(***************************************************************************)
\* the text of a feature's type in a template literal
typeText(type) ==
    CASE type = "css" -> Chars("css")
      [] type = "javascript" -> Chars("javascript")
      [] type = "html" -> Chars("html")

\* `${feature.id}-${feature.type}`: a feature without an id gives "undefined"
usageKey(feature) ==
    (IF "id" \in DOMAIN feature THEN feature.id ELSE Chars("undefined"))
        \o <<"-">> \o typeText(feature.type)

getRiskLevel(status) ==
    CASE status = "widely_available" -> "low"
      [] status = "newly_available" -> "medium"
      [] status = "limited_availability" -> "high"
      [] OTHER -> "medium"

\* the location pushed for a feature: feature.range?.start.line || 0
locationOf(feature) ==
    [filePath |-> feature.filePath,
     line |-> IF "range" \in DOMAIN feature THEN feature.range.start.line ELSE 0,
     column |-> IF "range" \in DOMAIN feature THEN feature.range.start.character ELSE 0]

\* the usage record featureMap.set stores for the first feature of a key
newUsage(feature) ==
    [feature |-> [name |-> feature.name,
                  description |-> feature.name,
                  baseline |-> feature.baselineStatus],
     locations |-> <<>>,
     riskLevel |-> getRiskLevel(feature.baselineStatus.status),
     usageCount |-> 0]

countUsageOnce(usage, feature) ==
    [usage EXCEPT !.usageCount = 1,
                  !.locations = IF "filePath" \in DOMAIN feature
                                THEN Append(@, locationOf(feature)) ELSE @]

\* usage.usageCount++ and, for a feature with a filePath, locations.push
countUsage(usage, feature) ==
    [usage EXCEPT !.usageCount = @ + 1,
                  !.locations = IF "filePath" \in DOMAIN feature
                                THEN Append(@, locationOf(feature)) ELSE @]

\* One iteration of the loop over the features.  featureMap is the Map in
\* insertion order: a sequence of [key, usage].
addFeature(featureMap, feature) ==
    LET key == usageKey(feature)
        at == {k \in DOMAIN featureMap : featureMap[k].key = key}
    IN  IF at = {}
        THEN Append(featureMap,
                    [key |-> key, usage |-> countUsage(newUsage(feature), feature)])
        ELSE [k \in DOMAIN featureMap |->
                IF k \in at
                THEN [featureMap[k] EXCEPT !.usage = countUsage(@, feature)]
                ELSE featureMap[k]]

RECURSIVE featureMapOf(_, _)
featureMapOf(features, featureMap) ==
    IF features = <<>> THEN featureMap
    ELSE featureMapOf(Tail(features), addFeature(featureMap, Head(features)))

riskOrder(level) ==
    CASE level = "high" -> 3
      [] level = "medium" -> 2
      [] level = "low" -> 1

compareUsageCountAscending(a, b) ==
    LET riskDiff == riskOrder(b.riskLevel) - riskOrder(a.riskLevel)
    IN  IF riskDiff # 0 THEN riskDiff ELSE a.usageCount - b.usageCount

\* the comparator given to Array.prototype.sort
compareUsage(a, b) ==
    LET riskDiff == riskOrder(b.riskLevel) - riskOrder(a.riskLevel)
    IN  IF riskDiff # 0 THEN riskDiff ELSE b.usageCount - a.usageCount

\* Array.prototype.sort is stable: x is put before the first element that
\* has to come after it
RECURSIVE insertUsage(_, _)
insertUsage(sorted, x) ==
    IF sorted = <<>> THEN <<x>>
    ELSE IF compareUsage(Head(sorted), x) > 0 THEN <<x>> \o sorted
    ELSE <<Head(sorted)>> \o insertUsage(Tail(sorted), x)

RECURSIVE sortUsages(_, _)
sortUsages(usages, sorted) ==
    IF usages = <<>> THEN sorted
    ELSE sortUsages(Tail(usages), insertUsage(sorted, Head(usages)))

groupFeaturesByType(features) ==
    LET featureMap == featureMapOf(features, <<>>)
    IN  sortUsages([k \in DOMAIN featureMap |-> featureMap[k].usage], <<>>)

\* the recommendations, each named by what it is about
generateRecommendations(res) ==
    LET found ==
            (IF res.riskDistribution.high > 0 THEN <<"high-risk features">> ELSE <<>>)
         \o (IF res.riskDistribution.medium > 0 THEN <<"newly available features">>
             ELSE <<>>)
         \o (IF Len(res.errors) > 0 THEN <<"analysis errors">> ELSE <<>>)
         \o (IF res.totalFiles > 0 /\ res.analyzedFiles * 100 < 90 * res.totalFiles
             THEN <<"analysis rate">> ELSE <<>>)
    IN  IF found = <<>> THEN <<"no significant issues">> ELSE found

generateReport(res, now) ==
    [summary |-> [totalFeatures |-> Len(res.features),
                  widelyAvailable |-> res.summary.widelyAvailable,
                  newlyAvailable |-> res.summary.newlyAvailable,
                  limitedAvailability |-> res.summary.limitedAvailability,
                  riskDistribution |-> res.riskDistribution,
                  fileTypeBreakdown |-> res.fileTypeBreakdown],
     features |-> groupFeaturesByType(res.features),
     recommendations |-> generateRecommendations(res),
     generatedAt |-> now,
     projectPath |-> <<>>,
     totalFiles |-> res.totalFiles,
     analyzedFiles |-> res.analyzedFiles,
     errors |-> res.errors]

(***************************************************************************)
(* GitHooksGenerator                                                       *)
(***************************************************************************)
HookTypes == <<Chars("pre-commit"), Chars("pre-push"), Chars("commit-msg")>>

\* String.prototype.includes and String.prototype.startsWith
includes(s, pat) ==
    \E k \in 0..(Len(s) - Len(pat)) : SubSeq(s, k + 1, k + Len(pat)) = pat
startsWith(s, pat) == Len(s) >= Len(pat) /\ SubSeq(s, 1, Len(pat)) = pat

\* String.prototype.trim
trim(s) ==
    LET inked == {k \in DOMAIN s : s[k] \notin SpaceChars}
    IN  IF inked = {} THEN <<>>
        ELSE SubSeq(s, CHOOSE k \in inked : \A j \in inked : k <= j,
                       CHOOSE k \in inked : \A j \in inked : k >= j)

\* content.split('\n'): the text between one line break and the next
splitLines(s) ==
    LET breaks == {k \in DOMAIN s : s[k] = "\n"}
        break(i) == IF i = 0 THEN 0
                    ELSE IF i > Cardinality(breaks) THEN Len(s) + 1
                    ELSE CHOOSE k \in breaks :
                            Cardinality({j \in breaks : j < k}) = i - 1
    IN  [i \in 1..(Cardinality(breaks) + 1) |->
            SubSeq(s, break(i - 1) + 1, break(i) - 1)]

\* Array.prototype.join('\n')
RECURSIVE joinLines(_)
joinLines(lines) ==
    IF lines = <<>> THEN <<>>
    ELSE IF Len(lines) = 1 THEN lines[1]
    ELSE lines[1] \o <<"\n">> \o joinLines(Tail(lines))

\* one line of a template literal, with the line break that ends it
Line(str) == Append(Chars(str), "\n")

\* the echo lines are given without their pictographs
generatePreCommitHook(options) ==
    LET changedOnlyFlag ==
            IF options.changedOnly THEN Chars(" --changed-only") ELSE <<>>
    IN  Line("")
     \o Line("# Baseline Lens compatibility check")
     \o Line("echo \"Running Baseline Lens compatibility check...\"")
     \o Line("")
     \o Line("if command -v baseline-lens-cli >/dev/null 2>&1; then")
     \o Chars("    baseline-lens-cli analyze") \o changedOnlyFlag \o Line(" \\")
     \o Chars("        --fail-on ") \o options.failOn \o Line(" \\")
     \o Chars("        --threshold ") \o options.threshold \o Line(" \\")
     \o Line("        --silent")
     \o Line("    ")
     \o Line("    if [ $? -ne 0 ]; then")
     \o Line("        echo \"Compatibility check failed. Commit blocked.\"")
     \o Chars("        echo \"Run 'baseline-lens-cli analyze")
     \o changedOnlyFlag \o Line("' to see details\"")
     \o Line("        exit 1")
     \o Line("    fi")
     \o Line("    ")
     \o Line("    echo \"Compatibility check passed\"")
     \o Line("else")
     \o Line("    echo \"baseline-lens-cli not found, skipping compatibility check\"")
     \o Line("fi")

generatePrePushHook(options) ==
    Line("")
 \o Line("# Baseline Lens compatibility check before push")
 \o Line("echo \"Running Baseline Lens compatibility check before push...\"")
 \o Line("")
 \o Line("if command -v baseline-lens-cli >/dev/null 2>&1; then")
 \o Line("    baseline-lens-cli analyze \\")
 \o Chars("        --fail-on ") \o options.failOn \o Line(" \\")
 \o Chars("        --threshold ") \o options.threshold \o Line(" \\")
 \o Line("        --changed-only \\")
 \o Line("        --base-branch origin/main \\")
 \o Line("        --silent")
 \o Line("    ")
 \o Line("    if [ $? -ne 0 ]; then")
 \o Line("        echo \"Compatibility check failed. Push blocked.\"")
 \o Line("        echo \"Run 'baseline-lens-cli analyze --changed-only' to see details\"")
 \o Line("        exit 1")
 \o Line("    fi")
 \o Line("    ")
 \o Line("    echo \"Compatibility check passed\"")
 \o Line("else")
 \o Line("    echo \"baseline-lens-cli not found, skipping compatibility check\"")
 \o Line("fi")

\* the jq filter of the summary line is given as `.summary`
generateCommitMsgHook ==
    Line("")
 \o Line("# Add compatibility info to commit message")
 \o Line("if command -v baseline-lens-cli >/dev/null 2>&1; then")
 \o Line("    # Get compatibility summary")
 \o Line("    COMPAT_SUMMARY=$(baseline-lens-cli analyze --changed-only --format json --silent 2>/dev/null | jq -r '.summary' 2>/dev/null)")
 \o Line("    ")
 \o Line("    if [ ! -z \"$COMPAT_SUMMARY\" ] && [ \"$COMPAT_SUMMARY\" != \"null\" ]; then")
 \o Line("        echo \"\" >> \"$1\"")
 \o Line("        echo \"Compatibility: $COMPAT_SUMMARY\" >> \"$1\"")
 \o Line("    fi")
 \o Line("fi")

generateHook(options) ==
    CASE options.type = Chars("pre-commit") -> generatePreCommitHook(options)
      [] options.type = Chars("pre-push") -> generatePrePushHook(options)
      [] options.type = Chars("commit-msg") -> generateCommitMsgHook

getShebang == Line("#!/bin/sh")
addHookComment ==
    <<"\n">> \o Line("# === Baseline Lens Hook (auto-generated) ===")

\* a file of .git/hooks: its text and whether it may be executed
HookFile(content, executable) ==
    [content |-> content, executable |-> executable]

installHookAppendAlways(hookFiles, hookType, content) ==
    IF hookFiles[hookType] # Null
    THEN [threw |-> FALSE,
          files |-> [hookFiles EXCEPT ![hookType] =
                        HookFile(hookFiles[hookType].content \o <<"\n", "\n">>
                                     \o addHookComment \o content, TRUE)]]
    ELSE [threw |-> FALSE,
          files |-> [hookFiles EXCEPT ![hookType] =
                        HookFile(getShebang \o addHookComment \o content, TRUE)]]

\* installHook: whether it threw, and the hook hookFiles afterwards
installHook(hookFiles, hookType, content) ==
    IF hookFiles[hookType] # Null
    THEN LET existing == hookFiles[hookType].content
         IN  IF includes(existing, Chars("baseline-lens-cli"))
             THEN [threw |-> TRUE, files |-> hookFiles]
             ELSE [threw |-> FALSE,
                   files |-> [hookFiles EXCEPT ![hookType] =
                                 HookFile(existing \o <<"\n", "\n">>
                                              \o addHookComment \o content,
                                          TRUE)]]
    ELSE [threw |-> FALSE,
          files |-> [hookFiles EXCEPT ![hookType] =
                        HookFile(getShebang \o addHookComment \o content, TRUE)]]

\* lines.findIndex(...): the first line with the marker, 0-based, or -1
findIndex(lines, pat) ==
    LET hits == {k \in DOMAIN lines : includes(lines[k], pat)}
    IN  IF hits = {} THEN -1
        ELSE (CHOOSE k \in hits : \A j \in hits : k <= j) - 1

\* the loop of removeHooks that looks for the end of the section: the next
\* line that is a shebang or holds a marker, or the end of the file
endIndex(lines, startIdx) ==
    LET stops == {i \in (startIdx + 1)..(Len(lines) - 1) :
                    \/ startsWith(lines[i + 1], Chars("#!"))
                    \/ includes(lines[i + 1], Chars("=== "))}
    IN  IF stops = {} THEN Len(lines)
        ELSE CHOOSE i \in stops : \A j \in stops : i <= j

\* lines.splice(startIdx, endIdx - startIdx), 0-based
splice(lines, startIdx, endIdx) ==
    SubSeq(lines, 1, startIdx) \o SubSeq(lines, endIdx + 1, Len(lines))

\* the body of removeHooks' loop for one hook file: the file afterwards
\* (Null when it is unlinked) and whether the type is reported
removeHook(file) ==
    IF file # Null /\ includes(file.content, Chars("Baseline Lens Hook"))
    THEN LET lines == splitLines(file.content)
             startIdx == findIndex(lines, Chars("=== Baseline Lens Hook"))
         IN  IF startIdx # -1
             THEN LET newContent ==
                          trim(joinLines(splice(lines, startIdx,
                                                endIndex(lines, startIdx))))
                  IN  [file |-> IF newContent = Chars("#!/bin/sh")
                                   \/ newContent = <<>>
                                THEN Null
                                ELSE [file EXCEPT !.content = newContent],
                       removed |-> TRUE]
             ELSE [file |-> file, removed |-> FALSE]
    ELSE [file |-> file, removed |-> FALSE]

\* removeHooks: the hook hookFiles afterwards and the types it returns
removeHooks(hookFiles) ==
    [files |-> [t \in DOMAIN hookFiles |-> removeHook(hookFiles[t]).file],
     removed |-> SelectSeq(HookTypes, LAMBDA t : removeHook(hookFiles[t]).removed)]

(***************************************************************************)
(* The run of the analyze command                                          *)
(***************************************************************************)
Unarmed == [armed |-> FALSE, deadline |-> 0]

classifierIdle == bcdData = Null /\ baselineStatus = Null
decisionIdle == failOn = <<>> /\ shouldFail = FALSE /\ failureMessage = Null
resolverIdle == request = Null /\ resolvedKey = Null
\* the first call of analyzeProject on a new analyzer: its cache is empty
FirstRun == [calls |-> 1, cacheAtStart |-> <<>>]
rerunIdle == run = FirstRun /\ firstResult = Null
serviceIdle == serviceCall = Null
\* no file in .git/hooks
NoHooks == [t \in Range(HookTypes) |-> Null]
hooksIdle == hooks = NoHooks /\ hookCalls = <<>>

commandIdle ==
    argv = Null /\ configFile = Null /\ report = Null /\ exitCode = Null

Init ==
    /\ serviceData = bcd
    /\ serviceIdle
    /\ hooksIdle
    /\ progress \in {[given |-> g, calls |-> <<>>] : g \in BOOLEAN}
    /\ pc = "start"
    /\ config \in Configs
    /\ \E n \in 0..MaxFiles :
         \E chosen \in [1..n -> Profiles] :
            candidates = [k \in 1..n |-> FileOf(k, chosen[k])]
    /\ files = <<>>
    /\ idx = 0
    /\ allFeatures = <<>>
    /\ errors = <<>>
    /\ analyzedFiles = 0
    /\ pending = Null
    /\ timer = Unarmed
    /\ clock = 0
    /\ bcdCache = <<>>
    /\ result = Null
    /\ classifierIdle
    /\ decisionIdle
    /\ resolverIdle
    /\ rerunIdle
    /\ commandIdle

\* analyzeProject up to its loop: initialize() and findSupportedFiles()
Discover ==
    /\ pc = "start"
    /\ files' = findSupportedFiles(candidates, config)
    /\ idx' = 0
    /\ allFeatures' = <<>>
    /\ errors' = <<>>
    /\ analyzedFiles' = 0
    /\ progress' = notify(progress, 0)
    /\ pc' = "loop"
    /\ UNCHANGED <<config, candidates, pending, timer, clock, bcdCache, result,
                   failOn, shouldFail, bcdData, baselineStatus>>
    /\ UNCHANGED <<resolverVars, rerunVars, commandVars, serviceData,
                   failureMessage, serviceCall, hookVars>>

\* one iteration of the loop calls analyzeFile, which runs until it suspends:
\* after a throw or an early return, or with the timer set and the detector done
BeginFile ==
    /\ pc = "loop"
    /\ idx < Len(files)
    /\ LET f == files[idx + 1]
           p == analyzeFileSync(f, config, bcdCache)
       IN  /\ pending' = p
           /\ bcdCache' = p.cache
           /\ progress' = notify(progress, progressOf(idx, Len(files)))
           /\ IF p.state = "awaiting"
              THEN /\ timer' = [armed |-> TRUE,
                                deadline |-> clock + config.analysisTimeout]
                   /\ clock' = clock + f.dur
              ELSE UNCHANGED <<timer, clock>>
    /\ pc' = "settle"
    /\ UNCHANGED <<config, candidates, files, idx, allFeatures, errors,
                   analyzedFiles, result, failOn, shouldFail, bcdData,
                   baselineStatus>>
    /\ UNCHANGED <<resolverVars, rerunVars, commandVars, serviceData,
                   failureMessage, serviceCall, hookVars>>

\* the event loop settles the promise and the loop body of analyzeProject
\* resumes: push the features, or catch the error
Settle ==
    /\ pc = "settle"
    /\ LET f == files[idx + 1]
           p == settle(pending, timer, clock, f, config)
       IN  IF p.state = "fulfilled"
           THEN /\ allFeatures' = IF Len(p.value) > 0
                                  THEN allFeatures \o p.value ELSE allFeatures
                /\ analyzedFiles' = IF Len(p.value) > 0
                                    THEN analyzedFiles + 1 ELSE analyzedFiles
                /\ UNCHANGED errors
           ELSE /\ errors' = Append(errors, [file |-> f.path, error |-> p.error])
                /\ UNCHANGED <<allFeatures, analyzedFiles>>
    /\ pending' = Null
    /\ timer' = Unarmed
    /\ idx' = idx + 1
    /\ pc' = "loop"
    /\ UNCHANGED <<config, candidates, files, clock, bcdCache, result, failOn,
                   shouldFail, bcdData, baselineStatus>>
    /\ UNCHANGED <<resolverVars, rerunVars, commandVars, serviceData,
                   progress, failureMessage, serviceCall, hookVars>>

\* after the loop: the statistics and the returned result
Finish ==
    /\ pc = "loop"
    /\ idx = Len(files)
    /\ progress' = notify(progress, 100)
    /\ result' = assembleResult(Len(files), analyzedFiles, allFeatures, errors)
    /\ pc' = "done"
    /\ UNCHANGED <<config, candidates, files, idx, allFeatures, errors,
                   analyzedFiles, pending, timer, clock, bcdCache, failOn,
                   shouldFail, bcdData, baselineStatus>>
    /\ UNCHANGED <<resolverVars, rerunVars, commandVars, serviceData,
                   failureMessage, serviceCall, hookVars>>

\* values of --fail-on
FailOnInputs ==
    { Chars("high"), Chars("medium"), Chars("low"),
      Chars("HIGH"), Chars("Medium"), Chars("LOW"),
      Chars("none"), Chars("higher"), <<"0">> }

\* the analyze command asks shouldFailBuild(result, options.failOn)
Decide ==
    /\ pc = "done"
    /\ \E level \in FailOnInputs :
         /\ failOn' = level
         /\ shouldFail' = shouldFailBuild(result, level)
         /\ failureMessage' = IF shouldFailBuild(result, level)
                              THEN getFailureMessage(result, level) ELSE Null
    /\ pc' = "decided"
    /\ UNCHANGED <<config, candidates, files, idx, allFeatures, errors,
                   analyzedFiles, pending, timer, clock, bcdCache, result,
                   bcdData, baselineStatus>>
    /\ UNCHANGED <<resolverVars, rerunVars, commandVars, serviceData, progress,
                   serviceCall, hookVars>>

Next == Discover \/ BeginFile \/ Settle \/ Finish \/ Decide

Spec == Init /\ [][Next]_vars

(***************************************************************************)
(* analyzeProject called a second time over the same files, on the same    *)
(* analyzer or on a new one                                                *)
(***************************************************************************)
\* the caller keeps the first result and calls analyzeProject again, with a
\* progress callback or without one
CallAgain(cache) ==
    /\ pc = "done"
    /\ run.calls = 1
    /\ firstResult' = result
    /\ run' = [calls |-> 2, cacheAtStart |-> cache, callbackBefore |-> progress.given]
    /\ \E given \in BOOLEAN : progress' = [given |-> given, calls |-> <<>>]
    /\ bcdCache' = cache
    /\ result' = Null
    /\ pc' = "start"
    /\ UNCHANGED <<config, candidates, files, idx, allFeatures, errors,
                   analyzedFiles, pending, timer, clock, failOn, shouldFail,
                   bcdData, baselineStatus>>
    /\ UNCHANGED <<resolverVars, commandVars, serviceData, failureMessage,
                   serviceCall, hookVars>>

\* on the same CLIAnalyzer: its CompatibilityDataService keeps its cache
SameAnalyzer == CallAgain(bcdCache)

\* on a new CLIAnalyzer(config): a new CompatibilityDataService, an empty cache
NewAnalyzer == CallAgain(<<>>)

NextRerun == Discover \/ BeginFile \/ Settle \/ Finish \/ SameAnalyzer \/ NewAnalyzer

SpecRerun == Init /\ [][NextRerun]_vars

(***************************************************************************)
(* CLIConfig                                                               *)
(***************************************************************************)
\* new CLIConfig(): the defaults
NewCLIConfig ==
    [supportThreshold |-> Num(90),
     enabledAnalyzers |-> [css |-> TRUE, javascript |-> TRUE, html |-> TRUE],
     maxFileSize |-> 10 * 1024 * 1024,
     analysisTimeout |-> 5000,
     failOn |-> Chars("high")]

\* the configuration file: none, one that cannot be read or parsed, or a JSON
\* object with some of the fields
NoConfigFile == Null
BrokenConfigFile == [k |-> "broken"]
ConfigObject(fields) == [k |-> "object", fields |-> fields]

\* Object.assign(config, fileConfig)
ObjectAssign(cfg, fields) ==
    [name \in DOMAIN cfg |-> IF name \in DOMAIN fields THEN fields[name] ELSE cfg[name]]

\* commander: the options of `analyze`, with the defaults of --fail-on and
\* --threshold for what the command line does not give
optionsOf(args) ==
    [failOn |-> IF args.failOn = Undefined THEN Str(Chars("high")) ELSE args.failOn,
     threshold |-> IF args.threshold = Undefined THEN Str(Chars("90"))
                   ELSE args.threshold]

loadWithoutFailOn(file, options) ==
    LET fromFile == IF file = NoConfigFile THEN NewCLIConfig
                    ELSE ObjectAssign(NewCLIConfig, file.fields)
    IN  IF Truthy(options.threshold)
        THEN [fromFile EXCEPT !.supportThreshold = parseInt(options.threshold)]
        ELSE fromFile

\* CLIConfig.load for a file that can be read: defaults, then the file, then
\* the command line options that are truthy
load(file, options) ==
    LET fromFile == IF file = NoConfigFile THEN NewCLIConfig
                    ELSE ObjectAssign(NewCLIConfig, file.fields)
        withThreshold ==
            IF Truthy(options.threshold)
            THEN [fromFile EXCEPT !.supportThreshold = parseInt(options.threshold)]
            ELSE fromFile
    IN  IF Truthy(options.failOn)
        THEN [withThreshold EXCEPT !.failOn = options.failOn.s]
        ELSE withThreshold

\* CLIConfig.validate: the errors it finds in the fields the model varies
validate(cfg) ==
    LET found ==
            (IF ~cfg.supportThreshold.nan
                  /\ (cfg.supportThreshold.n < 0 \/ cfg.supportThreshold.n > 100)
             THEN {"supportThreshold"} ELSE {})
         \cup (IF cfg.maxFileSize < 1024 THEN {"maxFileSize"} ELSE {})
         \cup (IF cfg.analysisTimeout < 1000 THEN {"analysisTimeout"} ELSE {})
         \cup (IF cfg.failOn \notin {Chars("high"), Chars("medium"), Chars("low")} THEN {"failOn"} ELSE {})
    IN  [isValid |-> found = {}, errors |-> found]

(***************************************************************************)
(* The analyze command: from the command line to the exit code             *)
(***************************************************************************)
\* what the user gives on the command line
CommandLines ==
    { [failOn |-> f, threshold |-> t] :
        f \in {Undefined, Str(Chars("low")), Str(Chars("medium")), Str(Chars("HIGH")), Str(<<>>)},
        t \in {Undefined, Str(Chars("150"))} }

ConfigFiles ==
    { NoConfigFile,
      BrokenConfigFile,
      ConfigObject([failOn |-> Chars("medium")]),
      ConfigObject([failOn |-> Chars("low")]),
      ConfigObject([failOn |-> Chars("critical")]),
      ConfigObject([maxFileSize |-> 1023]),
      ConfigObject([analysisTimeout |-> 999]),
      ConfigObject([supportThreshold |-> Num(101)]) }

\* the files of the projects the command is run on
CommandProfiles ==
    { Plain(Chars(".css"), Chars("gap:1")),
      Plain(Chars(".css"), Chars("zoom:2\ninset:0")),
      Plain(Chars(".css"), Pad(Chars("inset:0"), MaxFileSize)),
      Profile(Chars(".css"), Chars("gap:1"), FALSE, "none", "EACCES", 1) }

InitCommand ==
    /\ serviceData = bcd
    /\ serviceIdle
    /\ hooksIdle
    /\ progress = [given |-> TRUE, calls |-> <<>>]
    /\ pc = "command"
    /\ argv \in CommandLines
    /\ configFile \in ConfigFiles
    /\ config = Null
    /\ \E n \in 0..MaxFiles :
         \E chosen \in [1..n -> CommandProfiles] :
            candidates = [k \in 1..n |-> FileOf(k, chosen[k])]
    /\ files = <<>>
    /\ idx = 0
    /\ allFeatures = <<>>
    /\ errors = <<>>
    /\ analyzedFiles = 0
    /\ pending = Null
    /\ timer = Unarmed
    /\ clock = 0
    /\ bcdCache = <<>>
    /\ result = Null
    /\ classifierIdle
    /\ decisionIdle
    /\ resolverIdle
    /\ rerunIdle
    /\ report = Null
    /\ exitCode = Null

\* CLIConfig.load, new CLIAnalyzer(config), new CLIReporter(config); a throw
\* of load ends the process in the catch of the action
LoadConfig ==
    /\ pc = "command"
    /\ IF configFile = BrokenConfigFile
       THEN /\ pc' = "failed"
            /\ exitCode' = 1
            /\ UNCHANGED config
       ELSE /\ config' = load(configFile, optionsOf(argv))
            /\ pc' = "start"
            /\ UNCHANGED exitCode
    /\ UNCHANGED <<candidates, files, idx, allFeatures, errors, analyzedFiles,
                   pending, timer, clock, bcdCache, result, failOn, shouldFail,
                   bcdData, baselineStatus, argv, configFile, report>>
    /\ UNCHANGED <<resolverVars, rerunVars, serviceData, progress,
                   failureMessage, serviceCall, hookVars>>

\* reporter.generateReport(result)
GenerateReport ==
    /\ pc = "done"
    /\ report' = generateReport(result, clock)
    /\ pc' = "reported"
    /\ UNCHANGED <<config, candidates, files, idx, allFeatures, errors,
                   analyzedFiles, pending, timer, clock, bcdCache, result,
                   failOn, shouldFail, bcdData, baselineStatus, argv,
                   configFile, exitCode>>
    /\ UNCHANGED <<resolverVars, rerunVars, serviceData, progress,
                   failureMessage, serviceCall, hookVars>>

\* The report goes to the console, or to the file of --output; writing the
\* file can throw, which ends the process in the catch of the action.
OutputReport ==
    /\ pc = "reported"
    /\ \E written \in BOOLEAN :
         IF written
         THEN pc' = "written" /\ UNCHANGED exitCode
         ELSE pc' = "failed" /\ exitCode' = 1
    /\ UNCHANGED <<config, candidates, files, idx, allFeatures, errors,
                   analyzedFiles, pending, timer, clock, bcdCache, result,
                   failOn, shouldFail, bcdData, baselineStatus, argv,
                   configFile, report>>
    /\ UNCHANGED <<resolverVars, rerunVars, serviceData, progress,
                   failureMessage, serviceCall, hookVars>>

\* the check for build failure: shouldFailBuild with options.failOn, then
\* process.exit(getExitCode(result)), or the action returns and the process
\* ends with code 0
CheckBuildFailure ==
    /\ pc = "written"
    /\ LET level == optionsOf(argv).failOn.s
       IN  /\ failOn' = level
           /\ shouldFail' = shouldFailBuild(result, level)
           /\ failureMessage' = IF shouldFailBuild(result, level)
                                THEN getFailureMessage(result, level) ELSE Null
           /\ exitCode' = IF shouldFailBuild(result, level)
                          THEN getExitCode(result, config) ELSE 0
    /\ pc' = "exited"
    /\ UNCHANGED <<config, candidates, files, idx, allFeatures, errors,
                   analyzedFiles, pending, timer, clock, bcdCache, result,
                   bcdData, baselineStatus, argv, configFile, report>>
    /\ UNCHANGED <<resolverVars, rerunVars, serviceData, progress,
                   serviceCall, hookVars>>

NextCommand ==
    \/ LoadConfig
    \/ Discover \/ BeginFile \/ Settle \/ Finish
    \/ GenerateReport
    \/ OutputReport
    \/ CheckBuildFailure

SpecCommand == InitCommand /\ [][NextCommand]_vars

(***************************************************************************)
(* shouldFailBuild on its own: every result analyzeProject can assemble    *)
(* from up to MaxFeatures features                                         *)
(***************************************************************************)
Statuses == {"widely_available", "newly_available", "limited_availability"}

DefaultConfig ==
    [maxFileSize |-> MaxFileSize,
     analysisTimeout |-> AnalysisTimeout,
     enabledAnalyzers |-> [css |-> TRUE, javascript |-> TRUE, html |-> TRUE]]

FeatureWith(status) ==
    [name |-> Chars("gap"), type |-> "css", line |-> 0, column |-> 0,
     baselineStatus |-> [status |-> status, support |-> <<>>],
     filePath |-> [id |-> 1, ext |-> Chars(".css")]]

pipelineIdle ==
    /\ config = DefaultConfig
    /\ candidates = <<>>
    /\ files = <<>>
    /\ idx = 0
    /\ allFeatures = <<>>
    /\ errors = <<>>
    /\ analyzedFiles = 0
    /\ pending = Null
    /\ timer = Unarmed
    /\ clock = 0
    /\ bcdCache = <<>>

InitFail ==
    /\ serviceData = bcd
    /\ serviceIdle
    /\ hooksIdle
    /\ progress = [given |-> FALSE, calls |-> <<>>]
    /\ pc = "done"
    /\ pipelineIdle
    /\ \E n \in 0..MaxFeatures :
         \E st \in [1..n -> Statuses] :
            result = assembleResult(1, IF n > 0 THEN 1 ELSE 0,
                                    [k \in 1..n |-> FeatureWith(st[k])], <<>>)
    /\ classifierIdle
    /\ decisionIdle
    /\ resolverIdle
    /\ rerunIdle
    /\ commandIdle

NextFail == Decide

SpecFail == InitFail /\ [][NextFail]_vars

(***************************************************************************)
(* generateReport on its own: results whose features carry ids or not, so  *)
(* that several usage records of one kind arise                            *)
(***************************************************************************)
\* the k-th feature of a result: at line k of the one file, with or without id
ReportFeature(k, id, type, status) ==
    LET base == [name |-> Chars("gap"), type |-> type, line |-> k, column |-> 0,
                 baselineStatus |-> [status |-> status, support |-> <<>>],
                 range |-> [start |-> [line |-> k, character |-> 0],
                            end |-> [line |-> k, character |-> 3]],
                 filePath |-> [id |-> 1, ext |-> Chars(".css")]]
    IN  IF id = Undefined THEN base ELSE [id |-> id.s] @@ base

ReportFeatureKinds ==
    {Undefined, Str(<<"a">>)} \X {"css", "html"} \X Statuses

InitReport ==
    /\ serviceData = bcd
    /\ serviceIdle
    /\ hooksIdle
    /\ progress = [given |-> FALSE, calls |-> <<>>]
    /\ pc = "done"
    /\ pipelineIdle
    /\ \E n \in 0..MaxFeatures :
         \E kind \in [1..n -> ReportFeatureKinds] :
            result = assembleResult(1, IF n > 0 THEN 1 ELSE 0,
                        [k \in 1..n |->
                            ReportFeature(k, kind[k][1], kind[k][2], kind[k][3])],
                        <<>>)
    /\ classifierIdle
    /\ decisionIdle
    /\ resolverIdle
    /\ rerunIdle
    /\ commandIdle

NextReport == GenerateReport

SpecReport == InitReport /\ [][NextReport]_vars

(***************************************************************************)
(* convertBCDToBaselineStatus on its own: every __compat record whose      *)
(* browser entries are taken from EntriesOf                                *)
(***************************************************************************)
thresholdOf(browser) ==
    CASE browser = "chrome" -> ChromeRecent
      [] browser = "firefox" -> FirefoxRecent
      [] browser = "safari" -> SafariRecent
      [] browser = "edge" -> EdgeRecent

\* the shapes support[browser] takes in the data, around the browser's threshold
EntriesOf(browser) ==
    LET below == V(thresholdOf(browser) - 1)
        at == V(thresholdOf(browser))
    IN  { Absent,
          One(Statement(Undefined, Undefined)),
          One(Statement(Null, Undefined)),
          One(Statement(Bool(FALSE), Undefined)),
          One(Statement(Bool(TRUE), Undefined)),
          One(Statement(below, Undefined)),
          One(Statement(at, Undefined)),
          One(Statement(Str(at.s \o Chars(".1")), Undefined)),
          One(Statement(Str(Chars("preview")), Undefined)),
          One(Statement(below, at)),
          Many(<<Statement(at, Undefined), Statement(below, at)>>) }

CompatRecords ==
    { [support |-> Support(c, f, s, e)] :
        c \in EntriesOf("chrome"), f \in EntriesOf("firefox"),
        s \in EntriesOf("safari"), e \in EntriesOf("edge") }
    \cup { [support |-> Null] }

InitClassify ==
    /\ serviceData = bcd
    /\ serviceIdle
    /\ hooksIdle
    /\ progress = [given |-> FALSE, calls |-> <<>>]
    /\ pc = "classify"
    /\ pipelineIdle
    /\ result = Null
    /\ decisionIdle
    /\ bcdData \in CompatRecords
    /\ baselineStatus = Null
    /\ resolverIdle
    /\ rerunIdle
    /\ commandIdle

\* getBCDStatus hands the __compat record to the classifier
Classify ==
    /\ pc = "classify"
    /\ baselineStatus' = convertBCDToBaselineStatus(bcdData)
    /\ pc' = "classified"
    /\ UNCHANGED <<config, candidates, files, idx, allFeatures, errors,
                   analyzedFiles, pending, timer, clock, bcdCache, result,
                   failOn, shouldFail, bcdData>>
    /\ UNCHANGED <<resolverVars, rerunVars, commandVars, serviceData,
                   progress, failureMessage, serviceCall, hookVars>>

NextClassify == Classify

SpecClassify == InitClassify /\ [][NextClassify]_vars

(***************************************************************************)
(* The feature resolver on its own: the map...ToBCD methods applied to     *)
(* tokens with and without a value or attribute                            *)
(***************************************************************************)
\* a call: which method, its first argument, and its optional second one
Request(kind, token, extra) == [kind |-> kind, token |-> token, extra |-> extra]

ResolveRequests ==
    { Request("css", p, v) :
        p \in {Chars("gap"), Chars("display"), Chars("zoom"), Chars("inset"), Chars("zz")},
        v \in {Undefined, Str(<<>>), Str(Chars("grid")), Str(Chars("inline-grid")), Str(Chars("zz"))} }
    \cup { Request("javascript", a, Undefined) :
        a \in Range(jsApiWords) \cup {Chars("alert"), Chars("Request"), Chars("Window"), Chars("zz")} }
    \cup { Request("html", e, a) :
        e \in {Chars("dialog"), Chars("form"), Chars("search"), Chars("zz")},
        a \in {Undefined, Str(<<>>), Str(Chars("open")), Str(Chars("hidden")),
               Str(Chars("accept-charset")), Str(Chars("accept_charset")), Str(Chars("zz"))} }

resolve(req) ==
    CASE req.kind = "css" -> mapCSSPropertyToBCD(req.token, req.extra)
      [] req.kind = "javascript" -> mapJSAPIToBCD(req.token)
      [] req.kind = "html" -> mapHTMLElementToBCD(req.token, req.extra)

analysisIdle ==
    /\ pipelineIdle
    /\ result = Null
    /\ classifierIdle
    /\ decisionIdle

InitResolve ==
    /\ serviceData = bcd
    /\ serviceIdle
    /\ hooksIdle
    /\ progress = [given |-> FALSE, calls |-> <<>>]
    /\ pc = "resolve"
    /\ analysisIdle
    /\ request \in ResolveRequests
    /\ resolvedKey = Null
    /\ rerunIdle
    /\ commandIdle

\* one call of mapCSSPropertyToBCD, mapJSAPIToBCD or mapHTMLElementToBCD
Resolve ==
    /\ pc = "resolve"
    /\ resolvedKey' = resolve(request)
    /\ pc' = "resolved"
    /\ UNCHANGED <<config, candidates, files, idx, allFeatures, errors,
                   analyzedFiles, pending, timer, clock, bcdCache, result,
                   failOn, shouldFail, bcdData, baselineStatus, request>>
    /\ UNCHANGED <<rerunVars, commandVars, serviceData, progress,
                   failureMessage, serviceCall, hookVars>>

NextResolve == Resolve

SpecResolve == InitResolve /\ [][NextResolve]_vars

(***************************************************************************)
(* Lookups made of one CompatibilityDataService, after initialize()        *)
(***************************************************************************)
\* keys of the compatibility data, ids of web-features, and strangers
ServiceKeys ==
    {Chars("grid"), Chars("dialog"), Chars("zoom"), Chars("css.properties.gap"),
     Chars("css.properties.zoom"), Chars("html.elements.dialog"),
     Chars("api.fetch"), Chars("zz")}

ServiceCall(method, key, value) ==
    [method |-> method, key |-> key, value |-> value]

InitService ==
    /\ serviceData = bcd
    /\ serviceCall = Null
    /\ hooksIdle
    /\ progress = [given |-> FALSE, calls |-> <<>>]
    /\ pc = "service"
    /\ analysisIdle
    /\ resolverIdle
    /\ rerunIdle
    /\ commandIdle

GetFeatureStatus ==
    /\ pc = "service"
    /\ \E featureId \in ServiceKeys :
          LET r == getFeatureStatus(bcdCache, featureId)
          IN  /\ bcdCache' = r.cache
              /\ serviceCall' = ServiceCall("getFeatureStatus", featureId, r.value)
    /\ UNCHANGED <<pc, config, candidates, files, idx, allFeatures, errors,
                   analyzedFiles, pending, timer, clock, result, failOn,
                   shouldFail, bcdData, baselineStatus>>
    /\ UNCHANGED <<resolverVars, rerunVars, commandVars, serviceData, progress,
                   failureMessage, hookVars>>

GetBCDStatus ==
    /\ pc = "service"
    /\ \E bcdKey \in ServiceKeys :
          LET r == getBCDStatus(bcdCache, bcdKey)
          IN  /\ bcdCache' = r.cache
              /\ serviceCall' = ServiceCall("getBCDStatus", bcdKey, r.value)
    /\ UNCHANGED <<pc, config, candidates, files, idx, allFeatures, errors,
                   analyzedFiles, pending, timer, clock, result, failOn,
                   shouldFail, bcdData, baselineStatus>>
    /\ UNCHANGED <<resolverVars, rerunVars, commandVars, serviceData, progress,
                   failureMessage, hookVars>>

ClearCache ==
    /\ pc = "service"
    /\ bcdCache' = clearCache(bcdCache)
    /\ serviceCall' = ServiceCall("clearCache", <<>>, Undefined)
    /\ UNCHANGED <<pc, config, candidates, files, idx, allFeatures, errors,
                   analyzedFiles, pending, timer, clock, result, failOn,
                   shouldFail, bcdData, baselineStatus>>
    /\ UNCHANGED <<resolverVars, rerunVars, commandVars, serviceData, progress,
                   failureMessage, hookVars>>

NextService == GetFeatureStatus \/ GetBCDStatus \/ ClearCache

SpecService == InitService /\ [][NextService]_vars

(***************************************************************************)
(* Runs of the init-hooks command in one repository                        *)
(***************************************************************************)
\* number of calls of installHook and removeHooks that are remembered
MaxHookCalls == 2

UserTests == HookFile(Line("#!/bin/sh") \o Line("npm test"), TRUE)
UserDisabled == HookFile(Line("#!/bin/sh") \o Line("npx lint-staged"), FALSE)
UserShebangOnly == HookFile(Line("#!/bin/sh"), TRUE)
UserOwnCheck ==
    HookFile(Line("#!/bin/sh") \o Line("npx baseline-lens-cli analyze"), TRUE)

Hooks(preCommit, prePush, commitMsg) ==
    (Chars("pre-commit") :> preCommit) @@ (Chars("pre-push") :> prePush)
        @@ (Chars("commit-msg") :> commitMsg)

\* the hooks a repository has before the command is first run
HookProfiles ==
    {NoHooks,
     Hooks(UserTests, Null, Null),
     Hooks(UserShebangOnly, UserDisabled, Null),
     Hooks(UserOwnCheck, Null, UserTests)}

\* the values of --fail-on given to init-hooks
HookFailOn == {Chars("high"), Chars("low")}

\* the options the command hands to generateHook: --threshold and
\* --changed-only at their defaults
GitHookOptions(type, level) ==
    [type |-> type, failOn |-> level, threshold |-> Chars("90"),
     changedOnly |-> TRUE]

\* the last MaxHookCalls calls
Remember(calls, call) ==
    IF Len(calls) < MaxHookCalls THEN Append(calls, call)
    ELSE Append(Tail(calls), call)

InitHooks ==
    /\ serviceData = bcd
    /\ serviceIdle
    /\ hooks \in HookProfiles
    /\ hookCalls = <<>>
    /\ progress = [given |-> FALSE, calls |-> <<>>]
    /\ pc = "hooks"
    /\ analysisIdle
    /\ resolverIdle
    /\ rerunIdle
    /\ commandIdle

\* init-hooks --type <type> --fail-on <level>: generateHook, then installHook
InstallHook ==
    /\ pc = "hooks"
    /\ \E type \in Range(HookTypes), level \in HookFailOn :
          LET r == installHook(hooks, type,
                               generateHook(GitHookOptions(type, level)))
          IN  /\ hooks' = r.files
              /\ hookCalls' = Remember(hookCalls,
                                  [op |-> "installHook", type |-> type,
                                   threw |-> r.threw, before |-> hooks[type]])
    /\ UNCHANGED <<analysisVars, resolverVars, rerunVars, commandVars,
                   serviceData, progress, failureMessage, serviceCall>>

\* init-hooks --remove: removeHooks
RemoveHooks ==
    /\ pc = "hooks"
    /\ LET r == removeHooks(hooks)
       IN  /\ hooks' = r.files
           /\ hookCalls' = Remember(hookCalls,
                               [op |-> "removeHooks", removed |-> r.removed])
    /\ UNCHANGED <<analysisVars, resolverVars, rerunVars, commandVars,
                   serviceData, progress, failureMessage, serviceCall>>

NextHooks == InstallHook \/ RemoveHooks

SpecHooks == InitHooks /\ [][NextHooks]_vars

(***************************************************************************)
(* Properties                                                              *)
(***************************************************************************)
Returned == pc \in {"done", "decided"}

\* C1: in every result analyzeProject returns, the three summary counts add
\* up to the number of features.
C1_SummarySumsToFeatures ==
    Returned =>
        result.summary.widelyAvailable + result.summary.newlyAvailable
            + result.summary.limitedAvailability = Len(result.features)

C1_Witness ==
    /\ pc = "done"
    /\ result.summary.widelyAvailable > 0
    /\ result.summary.newlyAvailable > 0
    /\ result.summary.limitedAvailability > 0

\* C2: in every result analyzeProject returns, the risk distribution adds up
\* to the number of features and is the summary relabelled: low is the widely
\* available count, medium the newly available one, high the limited one.
C2_RiskIsRelabelledSummary ==
    Returned =>
        /\ result.riskDistribution.low + result.riskDistribution.medium
              + result.riskDistribution.high = Len(result.features)
        /\ result.riskDistribution.low = result.summary.widelyAvailable
        /\ result.riskDistribution.medium = result.summary.newlyAvailable
        /\ result.riskDistribution.high = result.summary.limitedAvailability

C2_Witness ==
    /\ pc = "done"
    /\ result.riskDistribution.low = 1
    /\ result.riskDistribution.medium = 1
    /\ result.riskDistribution.high = 0

\* the level is exactly this word / this word in any mix of upper and lower case
IsWord(level, word) == level = word
IsWordAnyCase(level, word) ==
    /\ Len(level) = Len(word)
    /\ \A k \in DOMAIN word :
          \/ level[k] = word[k]
          \/ \E u \in DOMAIN LowerSeq : LowerSeq[u] = word[k] /\ UpperSeq[u] = level[k]

\* what the claim expects of shouldFailBuild, given which levels count as
\* high, medium and low
ExpectedDecision(res, isHigh, isMedium, isLow) ==
    IF isHigh THEN res.riskDistribution.high > 0
    ELSE IF isMedium
         THEN res.riskDistribution.medium > 0 \/ res.riskDistribution.high > 0
    ELSE IF isLow THEN Len(res.features) > 0
    ELSE FALSE

\* C3 (as stated): the decision is that of high, medium or low only when
\* failOn is exactly one of these three strings; for any other string the
\* decision is false.
C3_Original ==
    pc = "decided" =>
        shouldFail = ExpectedDecision(result, IsWord(failOn, Chars("high")),
                                      IsWord(failOn, Chars("medium")), IsWord(failOn, Chars("low")))

\* C3 (amended): failOn is compared without regard to case: the decision is
\* that of high, medium or low when failOn is one of these words in any mix of
\* upper and lower case, and false for every other string.
C3_CaseInsensitiveDecision ==
    pc = "decided" =>
        shouldFail = ExpectedDecision(result, IsWordAnyCase(failOn, Chars("high")),
                                      IsWordAnyCase(failOn, Chars("medium")),
                                      IsWordAnyCase(failOn, Chars("low")))

C3_Witness ==
    /\ pc = "decided"
    /\ failOn = Chars("Medium")
    /\ result.riskDistribution.medium > 0
    /\ result.riskDistribution.high = 0
    /\ shouldFail

\* C4: for every result analyzeProject returns, failing on high implies
\* failing on medium, which implies failing on low.
C4_MonotonicFailOn ==
    Returned =>
        /\ shouldFailBuild(result, Chars("high")) => shouldFailBuild(result, Chars("medium"))
        /\ shouldFailBuild(result, Chars("medium")) => shouldFailBuild(result, Chars("low"))

C4_Witness ==
    /\ pc = "done"
    /\ result.riskDistribution.high > 0
    /\ result.riskDistribution.low = 0
    /\ shouldFailBuild(result, Chars("high"))
    /\ shouldFailBuild(result, Chars("low"))

\* the files the loop has finished with
Processed == {k \in DOMAIN files : k <= idx}

\* statSync or readFileSync throws when analyzeFile gets to the file
ReadFails(f) == f.statErr # "none" \/ (f.size > 0 /\ f.readErr # "none")

ErrorsOf(errs, path) == {e \in DOMAIN errs : errs[e].file = path}
FeaturesOf(features, path) == {k \in DOMAIN features : features[k].filePath = path}

\* what the detector of the file's extension finds in its content
ScanOf(f, cfg) ==
    LET type == detectorOf(toLowerCase(f.path.ext))
    IN  IF type # "none" /\ cfg.enabledAnalyzers[type] /\ f.size > 0
        THEN analyze(type, f.content, f.path, <<>>).features
        ELSE <<>>

Readable(f) == ~f.gone /\ f.statErr = "none" /\ f.readErr = "none"

\* C6 (as stated): a file of exactly maxFileSize bytes is analyzed, and a file
\* of maxFileSize + 1 bytes has an entry in the errors of the result.
C6_SizeBoundary ==
    Returned =>
        \A k \in DOMAIN candidates :
            LET f == candidates[k]
            IN  Readable(f) =>
                  /\ f.size = config.maxFileSize =>
                        /\ ErrorsOf(result.errors, f.path) = {}
                        /\ Cardinality(FeaturesOf(result.features, f.path))
                              = Len(ScanOf(f, config))
                  /\ f.size = config.maxFileSize + 1 =>
                        ErrorsOf(result.errors, f.path) # {}

\* the detector ran on the file: it was read, and its extension has an enabled detector
Scanned(f, cfg) ==
    /\ ~ReadFails(f)
    /\ f.size > 0
    /\ detectorOf(toLowerCase(f.path.ext)) # "none"
    /\ cfg.enabledAnalyzers[detectorOf(toLowerCase(f.path.ext))]

\* C7 (as stated): a file whose scan takes longer than analysisTimeout ends as
\* an error of the run and contributes no feature.
C7_TimeoutWins ==
    \A k \in Processed :
        (Scanned(files[k], config) /\ files[k].dur > config.analysisTimeout) =>
            /\ ErrorsOf(errors, files[k].path) # {}
            /\ FeaturesOf(allFeatures, files[k].path) = {}

\* the tokens the detector's expression matches in the text, left to right,
\* without the deny-listed ones
RECURSIVE CandidateTokens(_, _, _)
CandidateTokens(type, content, lastIndex) ==
    LET m == exec(type, content, lastIndex)
    IN  IF m = NoMatch THEN <<>>
        ELSE (IF isSkipped(type, tokenOf(type, m)) THEN <<>> ELSE <<tokenOf(type, m)>>)
                \o CandidateTokens(type, content, m.next)

FeaturesInOrder(features, path) ==
    LET OfPath(x) == x.filePath = path
    IN  SelectSeq(features, OfPath)

\* C8 (as stated): every token a detector matches that is not deny-listed is a
\* feature of the result, one per occurrence, and a token whose key is not in
\* the knowledge base is recorded as limited_availability.
C8_EveryCandidateRecorded ==
    \A k \in Processed :
        Scanned(files[k], config) =>
            LET type == detectorOf(toLowerCase(files[k].path.ext))
                tokens == CandidateTokens(type, files[k].content, 1)
                found == FeaturesInOrder(allFeatures, files[k].path)
            IN  /\ Len(found) = Len(tokens)
                /\ \A j \in DOMAIN tokens :
                      /\ found[j].name = tokens[j]
                      /\ getBCDData(mapToBCD(type, tokens[j])) = Null =>
                            found[j].baselineStatus.status = "limited_availability"

\* The claims' reading of one browser entry.  The statement that speaks for a
\* browser is the entry itself, or the first statement of an array.
Speaking(entry) == IF entry.k = "array" THEN entry.stmts[1] ELSE entry.stmt

\* the added-version is given: not unspecified, not null, not false
AddedGiven(entry) ==
    /\ entry.k # "absent"
    /\ Speaking(entry).version_added \notin {Undefined, Null, Bool(FALSE)}

\* the entry carries a removed marker
RemovedMarked(entry) ==
    /\ entry.k # "absent"
    /\ Speaking(entry).version_removed # Undefined

\* the added-version is a number (its leading integer) at or above the threshold
AddedAtOrAbove(entry, threshold) ==
    /\ AddedGiven(entry)
    /\ Speaking(entry).version_added.t = "string"
    /\ LET text == Speaking(entry).version_added.s
       IN  /\ text # <<>>
           /\ text[1] \in DigitChars
           /\ LeadingDigits(text, 1, 0) >= threshold

claimThreshold == [chrome |-> 88, firefox |-> 85, safari |-> 14, edge |-> 88]

supportedCount(support) ==
    Cardinality({b \in DOMAIN claimThreshold : AddedGiven(support[b])})

recentCount(support) ==
    Cardinality({b \in DOMAIN claimThreshold :
                    AddedAtOrAbove(support[b], claimThreshold[b])})

Classified == pc = "classified" /\ bcdData.support # Null

\* C9: the classifier returns widely_available iff all four browsers have
\* support and none of them at or above its threshold; otherwise
\* newly_available iff at least three have support and at most two are at or
\* above their threshold; otherwise limited_availability.
C9_ClassificationRule ==
    Classified =>
        LET sc == supportedCount(bcdData.support)
            rc == recentCount(bcdData.support)
        IN  /\ baselineStatus.status = "widely_available" <=> (sc >= 4 /\ rc = 0)
            /\ baselineStatus.status = "newly_available"
                  <=> (~(sc >= 4 /\ rc = 0) /\ sc >= 3 /\ rc <= 2)
            /\ baselineStatus.status = "limited_availability"
                  <=> (~(sc >= 4 /\ rc = 0) /\ ~(sc >= 3 /\ rc <= 2))

\* three of four browsers with support, one of them at its threshold
C9_Witness ==
    /\ Classified
    /\ supportedCount(bcdData.support) = 3
    /\ recentCount(bcdData.support) = 1
    /\ bcdData.support.edge = Absent
    /\ baselineStatus.status = "newly_available"

\* C10 (as stated): a browser whose added-version is unspecified, false or
\* null, or whose entry carries a removed marker, is not counted as supported.
C10_UnsupportedEntries ==
    Classified =>
        \A b \in Range(majorBrowsers) :
            (~AddedGiven(bcdData.support[b]) \/ RemovedMarked(bcdData.support[b]))
                => b \notin DOMAIN baselineStatus.support

\* the candidate keys the claim gives each kind, in their order, and the
\* best-guess key
Given(extra) == extra # Undefined /\ extra.s # <<>>

CandidateKeys(req) ==
    CASE req.kind = "css" ->
            IF Given(req.extra)
            THEN << Chars("css") \o Dot \o Chars("properties") \o Dot \o req.token \o Dot
                        \o replaceHyphens(req.extra.s) >>
            ELSE <<>>
      [] req.kind = "javascript" ->
            << Chars("api") \o Dot \o req.token,
               Chars("javascript") \o Dot \o Chars("builtins") \o Dot \o req.token,
               Chars("api") \o Dot \o Chars("Window") \o Dot \o req.token,
               Chars("api") \o Dot \o req.token \o Dot \o req.token >>
      [] req.kind = "html" ->
            IF Given(req.extra)
            THEN << Chars("html") \o Dot \o Chars("elements") \o Dot \o req.token \o Dot \o req.extra.s,
                    Chars("html") \o Dot \o Chars("global_attributes") \o Dot \o req.extra.s,
                    Chars("html") \o Dot \o Chars("elements") \o Dot \o req.token \o Dot
                        \o replaceHyphens(req.extra.s) >>
            ELSE <<>>

BestGuessKey(req) ==
    CASE req.kind = "css" -> Chars("css") \o Dot \o Chars("properties") \o Dot \o req.token
      [] req.kind = "javascript" -> Chars("api") \o Dot \o req.token
      [] req.kind = "html" ->
            IF Given(req.extra)
            THEN Chars("html") \o Dot \o Chars("elements") \o Dot \o req.token \o Dot \o req.extra.s
            ELSE Chars("html") \o Dot \o Chars("elements") \o Dot \o req.token

Resolving(keys) == {k \in DOMAIN keys : getBCDData(keys[k]) # Null}

\* C11: the resolver returns the first of its candidate keys, in their fixed
\* order, that the knowledge base resolves, also when a later candidate
\* resolves too; when none resolves it returns the best-guess key; what it
\* returns is always a key.
C11_FirstResolvingCandidate ==
    pc = "resolved" =>
        LET keys == CandidateKeys(request)
            hits == Resolving(keys)
        IN  /\ resolvedKey # Null
            /\ resolvedKey # <<>>
            /\ hits # {} =>
                  \E k \in hits : /\ resolvedKey = keys[k]
                                   /\ \A h \in hits : k <= h
            /\ hits = {} => resolvedKey = BestGuessKey(request)

\* fetch resolves as api.fetch and as api.Window.fetch: the first is returned
C11_Witness ==
    /\ pc = "resolved"
    /\ request = Request("javascript", Chars("fetch"), Undefined)
    /\ Resolving(CandidateKeys(request)) = {1, 3}
    /\ resolvedKey = Chars("api") \o Dot \o Chars("fetch")

\* the position of a path in the list of discovered files
DiscoveryIndex(path) == CHOOSE k \in DOMAIN files : files[k].path = path

\* one position of a text is before another: on an earlier line, or on the
\* same line and further left
Before(a, b) == a.line < b.line \/ (a.line = b.line /\ a.column < b.column)

\* C12: in the result, features and errors are in file-discovery order, and
\* the features of one file are in the order of their positions in its text,
\* top to bottom and left to right.
C12_DiscoveryAndScanOrder ==
    Returned =>
        /\ \A i, j \in DOMAIN result.features :
              i < j =>
                LET a == result.features[i]
                    b == result.features[j]
                IN  /\ DiscoveryIndex(a.filePath) <= DiscoveryIndex(b.filePath)
                    /\ a.filePath = b.filePath => Before(a, b)
        /\ \A i, j \in DOMAIN result.errors :
              i < j => DiscoveryIndex(result.errors[i].file)
                          < DiscoveryIndex(result.errors[j].file)

\* two files with features, the second with one feature on each of two lines
C12_Witness ==
    /\ pc = "done"
    /\ Len(files) = 2
    /\ Len(result.features) = 4
    /\ result.features[1].filePath = files[1].path
    /\ result.features[1].column < result.features[2].column
    /\ result.features[2].filePath = files[1].path
    /\ result.features[3].filePath = files[2].path
    /\ result.features[3].line < result.features[4].line

\* C13: a second analyzeProject call over the same files with the same
\* configuration returns the same result as the first, on a new analyzer and
\* on the same analyzer with its cache filled.
C13_SecondRunSameResult ==
    (pc = "done" /\ run.calls = 2) => result = firstResult

\* the second call began with a filled cache, found features and an error
C13_Witness ==
    /\ pc = "done"
    /\ run.calls = 2
    /\ run.cacheAtStart # <<>>
    /\ Len(result.features) > 1
    /\ Len(result.errors) > 0
    /\ result = firstResult

\* C14 (as stated): every file the detector scanned without error is counted
\* in analyzedFiles, also when the scan found no feature, and analyzedFiles
\* is at most totalFiles.
C14_ScannedFilesCounted ==
    Returned =>
        /\ result.analyzedFiles
              >= Cardinality({k \in DOMAIN files : Scanned(files[k], config)})
        /\ result.analyzedFiles <= result.totalFiles

\* the analyze command got to its check for build failure and the process ended
Exited == pc = "exited"

\* C15: when the analyze command completes its analysis, the process exits
\* non-zero iff shouldFailBuild(result, options.failOn) is true; the errors of
\* single files do not make the exit code non-zero.
C15_ExitCodeIsDecision ==
    Exited => (exitCode # 0 <=> shouldFailBuild(result, optionsOf(argv).failOn.s))

\* a file failed and another has a newly available feature: with --fail-on
\* medium the exit code is 1, because of the feature
C15_Witness ==
    /\ Exited
    /\ argv.failOn = Str(Chars("medium"))
    /\ Len(result.errors) = 1
    /\ result.riskDistribution.medium = 1
    /\ result.riskDistribution.high = 0
    /\ exitCode = 1

\* C16 (as stated): the pipeline only ever runs with a configuration that
\* passes validation.
C16_PipelineConfigValid ==
    pc \notin {"command", "failed"} => validate(config).isValid

\* the threshold the claim gives the command: the command line if it sets
\* --fail-on, else the configuration file if it sets failOn, else high
ClaimedFailOn ==
    IF argv.failOn # Undefined THEN argv.failOn.s
    ELSE IF configFile # NoConfigFile /\ "failOn" \in DOMAIN configFile.fields
         THEN configFile.fields.failOn
    ELSE Chars("high")

\* C17 (as stated): the build fails, with a non-zero exit code, on the failOn
\* level of the configuration file when --fail-on is not given.
C17_FileFailOnApplies ==
    Exited => (exitCode # 0 <=> shouldFailBuild(result, ClaimedFailOn))

\* the features of the result whose location a usage record lists
InRecord(usage, feature) ==
    \E l \in DOMAIN usage.locations : usage.locations[l] = locationOf(feature)

Reported == pc \in {"reported", "written", "exited"}

\* C18 (as stated): two features of the result are in the same usage record
\* of the report iff they have the same resolved key and the same kind.
C18_GroupedByResolvedKey ==
    Reported =>
        \A i, j \in DOMAIN result.features :
            LET a == result.features[i]
                b == result.features[j]
            IN  (\E u \in DOMAIN report.features :
                    InRecord(report.features[u], a) /\ InRecord(report.features[u], b))
                <=> (mapToBCD(a.type, a.name) = mapToBCD(b.type, b.name)
                        /\ a.type = b.type)

\* the index in the result of the first feature a usage record counts
FirstSeen(usage) == usage.locations[1].line

\* C19: the usage records of a report are sorted by risk level, high first,
\* then by usage count, larger first, and records equal on both are in the
\* order in which their first features were seen.
C19_UsageRecordsSorted ==
    pc = "reported" =>
        \A u, v \in DOMAIN report.features :
            u < v =>
                LET a == report.features[u]
                    b == report.features[v]
                IN  \/ riskOrder(a.riskLevel) > riskOrder(b.riskLevel)
                    \/ /\ a.riskLevel = b.riskLevel
                       /\ a.usageCount > b.usageCount
                    \/ /\ a.riskLevel = b.riskLevel
                       /\ a.usageCount = b.usageCount
                       /\ FirstSeen(a) < FirstSeen(b)

\* three records: the one seen first is of low risk and comes last, the other
\* two are of high risk with one use each and keep their order
C19_Witness ==
    /\ pc = "reported"
    /\ Len(report.features) = 3
    /\ FirstSeen(report.features[1]) = 2
    /\ FirstSeen(report.features[2]) = 3
    /\ FirstSeen(report.features[3]) = 1
    /\ report.features[1].riskLevel = "high"
    /\ report.features[2].riskLevel = "high"
    /\ report.features[3].riskLevel = "low"

\* a file of 0 bytes whose stat succeeds
EmptyFile(f) == f.size = 0 /\ f.statErr = "none"

\* C20: an empty file yields zero features and no error: analyzeFile
\* resolves with an empty list, and the run records neither a feature nor an
\* error for the file.
C20_EmptyFileNoFeatureNoError ==
    /\ (pc = "settle" /\ EmptyFile(files[idx + 1])) =>
          /\ pending.state = "fulfilled"
          /\ pending.value = <<>>
    /\ \A k \in Processed :
          EmptyFile(files[k]) =>
            /\ ErrorsOf(errors, files[k].path) = {}
            /\ FeaturesOf(allFeatures, files[k].path) = {}
    /\ Returned =>
          \A k \in DOMAIN files :
            EmptyFile(files[k]) =>
              /\ ErrorsOf(result.errors, files[k].path) = {}
              /\ FeaturesOf(result.features, files[k].path) = {}

\* an empty file, then a file with a feature: the result has the feature only
C20_Witness ==
    /\ pc = "done"
    /\ Len(files) = 2
    /\ EmptyFile(files[1])
    /\ result.totalFiles = 2
    /\ result.errors = <<>>
    /\ Len(result.features) = 1
    /\ result.features[1].filePath = files[2].path

\* keys a lookup is made with: the cached ones, and keys the resolver returns
\* for tokens the knowledge base has and for tokens it does not have
LookupKeys ==
    DOMAIN bcdCache
        \cup {Chars("css.properties.gap"), Chars("css.properties.zoom"),
              Chars("css.properties.zz"), Chars("api.fetch"), Chars("api.zz"),
              Chars("html.elements.dialog"), Chars("html.elements.zz")}

\* cache b holds every entry of cache a, with the same fact
Extends(b, a) == \A k \in DOMAIN a : k \in DOMAIN b /\ b[k] = a[k]

\* every entry is the fact derived from the knowledge base for its own key,
\* and a lookup of any key returns the cached fact, stores a newly resolved
\* fact under the key asked for, and keeps every entry
CacheFaithful ==
    /\ \A k \in DOMAIN bcdCache :
          /\ getBCDData(k) # Null
          /\ bcdCache[k] = convertBCDToBaselineStatus(getBCDData(k))
    /\ \A key \in LookupKeys :
          LET got == getBCDStatus(bcdCache, key)
          IN  /\ Extends(got.cache, bcdCache)
              /\ key \in DOMAIN bcdCache => got.value = bcdCache[key]
              /\ got.value # Null => /\ key \in DOMAIN got.cache
                                     /\ got.cache[key] = got.value
              /\ DOMAIN got.cache \subseteq DOMAIN bcdCache \cup {key}

\* C21: the knowledge-base cache is monotonic within a run of analyzeProject:
\* the first successful resolution of a key stores its fact under that exact
\* key, every later lookup of the key returns that fact, and no step of the
\* run removes an entry or replaces it by a different value.
C21_CacheMonotonic ==
    /\ []CacheFaithful
    /\ [][Extends(bcdCache', bcdCache)]_vars

\* a run that resolved two keys and looked one of them up again
C21_Witness ==
    /\ pc = "done"
    /\ Cardinality(DOMAIN bcdCache) >= 2
    /\ Len(allFeatures) > Cardinality(DOMAIN bcdCache)

\* the detector the claim assigns to a lower-cased extension
ClaimedDetector(ext) ==
    IF ext \in {Chars(".css"), Chars(".scss"), Chars(".sass"), Chars(".less")}
    THEN "css"
    ELSE IF ext \in {Chars(".js"), Chars(".jsx"), Chars(".ts"), Chars(".tsx"),
                     Chars(".mjs")}
    THEN "javascript"
    ELSE IF ext \in {Chars(".html"), Chars(".htm"), Chars(".vue"), Chars(".svelte")}
    THEN "html"
    ELSE "none"

\* no detector scans the file: none is registered for its extension, or the
\* registered one is switched off
Undetected(f, cfg) ==
    \/ ClaimedDetector(toLowerCase(f.path.ext)) = "none"
    \/ ~cfg.enabledAnalyzers[ClaimedDetector(toLowerCase(f.path.ext))]

DeniedCss ==
    {Chars("color"), Chars("background"), Chars("margin"), Chars("padding"),
     Chars("width"), Chars("height")}
DeniedHtml ==
    {Chars("div"), Chars("span"), <<"p">>, <<"a">>, Chars("img"), Chars("h1"),
     Chars("h2"), Chars("h3"), Chars("h4"), Chars("h5"), Chars("h6")}

\* the keys the resolver returns for the denied names
DeniedKeys ==
    {mapCSSPropertyToBCD(n, Undefined) : n \in DeniedCss}
        \cup {mapHTMLElementToBCD(n, Undefined) : n \in DeniedHtml}

\* C23: deny-listed tokens never reach the resolver or the result: at no
\* point of a run is a css feature named color, background, margin, padding,
\* width or height, or an html feature named div, span, p, a, img or h1..h6
\* (tag names lower-cased), and no key of such a name was ever looked up.
C23_DenyListed ==
    /\ \A i \in DOMAIN allFeatures :
          /\ allFeatures[i].type = "css" => allFeatures[i].name \notin DeniedCss
          /\ allFeatures[i].type = "html" =>
                toLowerCase(allFeatures[i].name) \notin DeniedHtml
    /\ DOMAIN bcdCache \cap DeniedKeys = {}

\* a run that scanned a stylesheet with a color declaration and a page with
\* an upper-case <P> tag, and recorded the other tokens of both
C23_Witness ==
    /\ pc = "done"
    /\ \E k \in DOMAIN files : files[k].content = Chars("zz:1;color:red")
    /\ \E k \in DOMAIN files : files[k].content = Chars("<dialog><P>")
    /\ \E i \in DOMAIN result.features : result.features[i].name = Chars("dialog")

\* how many calls of the callback a run has made when it is at its position
CallsDue ==
    CASE pc = "start" -> 0
      [] pc = "loop" -> idx + 1
      [] pc = "settle" -> idx + 2
      [] OTHER -> Len(files) + 2

RECURSIVE OffsetOf(_, _, _)
OffsetOf(content, line, column) ==
    IF line = 0 THEN column
    ELSE LET first == Len(Head(split(content, "\n"))) + 1
         IN  first + OffsetOf(SubSeq(content, first + 1, Len(content)), line - 1, column)

\* the text of the file a feature was found in
ContentOf(feature) == files[DiscoveryIndex(feature.filePath)].content

\* the characters of content that begin at (line, column), as many as the name has
TextAt(feature) ==
    LET at == OffsetOf(ContentOf(feature), feature.line, feature.column)
    IN  SubSeq(ContentOf(feature), at + 1, at + Len(feature.name))

\* C25: for every feature of every detector, (line, column) is the position in
\* the original text of the first character of the token stored in the
\* feature's name (letter case aside for tag names, which are stored
\* lower-cased): the text at that position reads as the name.
C25_PositionOfToken ==
    \A i \in DOMAIN allFeatures :
        toLowerCase(TextAt(allFeatures[i])) = toLowerCase(allFeatures[i].name)

\* the count of a risk level is positive and the level makes a build with
\* this failOn fail
Caused(res, level, risk) ==
    /\ res.riskDistribution[risk] > 0
    /\ \/ risk = "high"
       \/ risk = "medium" /\ level \in {Chars("medium"), Chars("low")}
       \/ risk = "low" /\ level = Chars("low")

\* C26: whenever shouldFailBuild(result, failOn) is true for failOn one of
\* high, medium, low, getFailureMessage(result, failOn) is not empty and
\* names a risk level whose count is positive and that caused the failure.
C26_FailureMessageNamesCause ==
    (pc = "decided" /\ shouldFail
        /\ failOn \in {Chars("high"), Chars("medium"), Chars("low")}) =>
        /\ failureMessage # <<>>
        /\ \E k \in DOMAIN failureMessage :
              /\ failureMessage[k].count > 0
              /\ Caused(result, failOn, failureMessage[k].risk)

\* C27: on one service, what getBCDStatus returns for a key is what it
\* returns on a service with an empty cache, whatever getFeatureStatus,
\* getBCDStatus and clearCache calls were made before.
C27_LookupDependsOnKeyOnly ==
    (serviceCall # Null /\ serviceCall.method = "getBCDStatus") =>
        serviceCall.value = getBCDStatus(<<>>, serviceCall.key).value

\* the lines of a hook file that begin a Baseline Lens section
SectionLines(file) ==
    LET lines == splitLines(file.content)
    IN  {k \in DOMAIN lines : includes(lines[k], Chars("=== Baseline Lens Hook"))}

HoldsSection(file) == file # Null /\ SectionLines(file) # {}

LastHookCall == hookCalls[Len(hookCalls)]
PreviousHookCall == hookCalls[Len(hookCalls) - 1]

\* C29: every hook file holds at most one Baseline Lens section, and a call
\* of installHook for a hook that holds one throws and leaves the hook
\* files as they were.
C29_AtMostOneSection ==
    /\ [](\A t \in DOMAIN hooks :
             hooks[t] # Null => Cardinality(SectionLines(hooks[t])) <= 1)
    /\ [][(/\ hookCalls' # hookCalls
           /\ LastHookCall'.op = "installHook"
           /\ HoldsSection(hooks[LastHookCall'.type]))
          => (LastHookCall'.threw /\ hooks' = hooks)]_vars

\* installHook was called twice for one hook: the second call threw and the
\* file holds the section of the first
C29_Witness ==
    /\ Len(hookCalls) = 2
    /\ hookCalls[1].op = "installHook" /\ ~hookCalls[1].threw
    /\ hookCalls[2].op = "installHook" /\ hookCalls[2].threw
    /\ hookCalls[2].type = hookCalls[1].type
    /\ Cardinality(SectionLines(hooks[hookCalls[2].type])) = 1
    /\ hookCalls[2].before = hooks[hookCalls[2].type]

\* C30: after installHook and then removeHooks, the hook file installHook
\* wrote is as it was before the install: absent if installHook created it,
\* the user's hook otherwise.
C30_InstallThenRemoveRestores ==
    (/\ Len(hookCalls) >= 2
     /\ PreviousHookCall.op = "installHook" /\ ~PreviousHookCall.threw
     /\ LastHookCall.op = "removeHooks")
        => hooks[PreviousHookCall.type] = PreviousHookCall.before

\* the weaker parts of C30: a created file is deleted, a user hook keeps
\* its text up to white space at its ends, and removeHooks returns the
\* types of the files it changed
C30_CreatedIsDeleted ==
    (/\ Len(hookCalls) >= 2
     /\ PreviousHookCall.op = "installHook" /\ ~PreviousHookCall.threw
     /\ PreviousHookCall.before = Null
     /\ LastHookCall.op = "removeHooks")
        => hooks[PreviousHookCall.type] = Null

C30_UserTextKept ==
    (/\ Len(hookCalls) >= 2
     /\ PreviousHookCall.op = "installHook" /\ ~PreviousHookCall.threw
     /\ PreviousHookCall.before # Null
     /\ LastHookCall.op = "removeHooks")
        => \/ /\ hooks[PreviousHookCall.type] # Null
              /\ hooks[PreviousHookCall.type].content
                     = trim(PreviousHookCall.before.content)
           \/ /\ hooks[PreviousHookCall.type] = Null
              /\ trim(PreviousHookCall.before.content)
                     \in {<<>>, Chars("#!/bin/sh")}

C30_ReportsChanged ==
    [][(hookCalls' # hookCalls /\ LastHookCall'.op = "removeHooks")
       => Range(LastHookCall'.removed)
              = {t \in DOMAIN hooks : hooks'[t] # hooks[t]}]_vars

RECURSIVE UsageTotal(_)
UsageTotal(usages) ==
    IF usages = <<>> THEN 0
    ELSE Head(usages).usageCount + UsageTotal(Tail(usages))

\* C28: in a report of generateReport, summary.totalFeatures is the number
\* of features of the result, the usage counts of the records add up to that
\* number, and no record lists more locations than its usage count.
C28_ReportTotals ==
    Reported =>
        /\ report.summary.totalFeatures = Len(result.features)
        /\ UsageTotal(report.features) = Len(result.features)
        /\ \A u \in DOMAIN report.features :
              Len(report.features[u].locations) <= report.features[u].usageCount

\* three features reported in two records, one of which counts two of them
C28_Witness ==
    /\ pc = "reported"
    /\ Len(result.features) = 3
    /\ Len(report.features) = 2
    /\ \E u \in DOMAIN report.features :
          /\ report.features[u].usageCount = 2
          /\ Len(report.features[u].locations) = 2
    /\ report.summary.totalFeatures = 3

====
